---- MODULE Spec2Model ----
(***************************************************************************)
(* The chunked, adaptive, resumable GDELT county/disaster crawler          *)
(* ("Disaster Fetch/disaster_fetch.py") as a state machine: the scheduler  *)
(* of main(), the retry loop of fetch_gdelt(), the global limiter          *)
(* rate_limit_sleep(), the HTTP session's own retry policy, the normalizer *)
(* rows_from_csv_text() and the two append-only files.                     *)
(*                                                                         *)
(* Time is counted in ticks of 1/60 s, so that 60/RATE_LIMIT_RPM, the      *)
(* jitters and every sleep of the program are whole numbers of ticks.      *)
(* A timestamp t of the program (a time.monotonic() reading) is kept as    *)
(* its age, monotonic() - t, saturated at AgeCap: every comparison the     *)
(* program makes on a timestamp is a comparison of its age.                *)
(***************************************************************************)
EXTENDS Integers, Sequences, FiniteSets, TLC

\* ------------------------------------------------------------------------
\* Program constants ("knobs"), in ticks where they are durations.
\* ------------------------------------------------------------------------
TicksPerSec == 3 * 20

\* DISASTERS, cut to the two labels of the resume example.
DISASTERS == <<"hurricane", "flood">>

RATE_LIMIT_RPM == 9
RETRIES == 8
TIMEOUT == 30 * TicksPerSec
SLEEP_BASE == (3 * TicksPerSec) \div 2
BACKOFF_MAX == 180 * TicksPerSec
CHUNK_SIZE == 2
CHUNK_COOLDOWN_SEC == 300 * TicksPerSec
MIN_API_INTERVAL == (11 * TicksPerSec) \div 2
STARTUP_WARMUP_SEC == 600 * TicksPerSec
GLOBAL_429_COOLDOWN == 300 * TicksPerSec
ADAPTIVE_DECAY_SEC == 600 * TicksPerSec

ADAPTIVE_MAX_FACTOR == 4

Min(a, b) == IF a <= b THEN a ELSE b
Max(a, b) == IF a >= b THEN a ELSE b

\* ------------------------------------------------------------------------
\* Text.  A date field is a sequence of one-character strings.
\* ------------------------------------------------------------------------
Digits == <<"0", "1", "2", "3", "4", "5", "6", "7", "8", "9">>

IsDigit(c) == \E i \in 1..10 : Digits[i] = c

\* Code point order of the characters of a normalized date: "-" sorts
\* below every digit.
Ord(c) == IF c = "-" THEN 0 ELSE CHOOSE i \in 1..10 : Digits[i] = c

RECURSIVE StrLess(_, _)
StrLess(a, b) ==
    IF b = <<>> THEN FALSE
    ELSE IF a = <<>> THEN TRUE
    ELSE IF Ord(Head(a)) < Ord(Head(b)) THEN TRUE
    ELSE IF Ord(Head(a)) > Ord(Head(b)) THEN FALSE
    ELSE StrLess(Tail(a), Tail(b))

\* A missing Date column reads as None.
NoneDate == <<"None">>

normalize_date(val) ==
    IF val = NoneDate THEN <<>>
    ELSE IF Len(val) < 8 \/ \E i \in 1..8 : ~IsDigit(val[i]) THEN <<>>
    ELSE SubSeq(val, 1, 4) \o <<"-">> \o SubSeq(val, 5, 6) \o <<"-">>
         \o SubSeq(val, 7, 8)

\* str.strip() on the cells the model uses.
Strip(s) ==
    CASE s = " Richmond " -> "Richmond"
      [] s = " " -> ""
      [] OTHER -> s

\* h.strip().lower() on the header cells the model uses.
StripLower(h) ==
    CASE h \in {"state", "State", " STATE "} -> "state"
      [] h \in {"county", "County"} -> "county"
      [] h \in {"disaster", "Disaster"} -> "disaster"
      [] OTHER -> Strip(h)

\* The column of the header cell that normalizes to `name`, 0 when there is
\* none (dict.get -> None).  A dict keeps the last of two equal keys.
ColumnOf(header, name) ==
    LET hits == {i \in 1..Len(header) : StripLower(header[i]) = name}
    IN  IF hits = {} THEN 0 ELSE CHOOSE i \in hits : \A j \in hits : j <= i

\* row.get(col, "") or "" of a csv.DictReader row: a short row has no cell.
CellOf(row, col) == IF col >= 1 /\ col <= Len(row) THEN row[col] ELSE ""

\* ------------------------------------------------------------------------
\* The reference entity list.
\* ------------------------------------------------------------------------
REMOVALS == {"county", "parish", "borough", "census area", "municipality",
             "city and borough", "city", "municipio", "district"}

LowerWord(w) ==
    CASE w = "County" -> "county"
      [] w = "City" -> "city"
      [] w = "Parish" -> "parish"
      [] OTHER -> w

\* A Census label "<name> <kind>, <state>" (county_part its text before the
\* comma): clean_county_name removes the words of REMOVALS from county_part,
\* whatever their case.
clean_county_name(label) ==
    IF LowerWord(label.kind) \in REMOVALS THEN label.name
    ELSE label.county_part

\* One row of us_counties.csv per Census row, as fetch_counties.main builds
\* it; its rows are distinct by county_geoid only.
census_row(c) ==
    <<c.state_name, c.county_geoid, clean_county_name(c.label)>>

CountiesHeader == <<"state_name", "county_geoid", "county_name_clean">>

\* load_counties: the (state, county) pairs of the rows in which both cells
\* are non-empty, in file order; columns are found by name, an alias being
\* tried when the name before it is absent.
FirstColumn(header, names) ==
    LET hit == {k \in 1..Len(names) : ColumnOf(header, names[k]) # 0}
    IN  IF hit = {} THEN 0
        ELSE ColumnOf(header, names[CHOOSE k \in hit : \A j \in hit : k <= j])

RECURSIVE county_rows(_, _, _)
county_rows(rows, s_col, c_col) ==
    IF rows = <<>> THEN <<>>
    ELSE LET s == Strip(CellOf(Head(rows), s_col))
             c == Strip(CellOf(Head(rows), c_col))
             rest == county_rows(Tail(rows), s_col, c_col)
         IN  IF s # "" /\ c # "" THEN <<(<<s, c>>)>> \o rest ELSE rest

s_col_of(file) == FirstColumn(file.header, <<"state_name", "state">>)

c_col_of(file) ==
    FirstColumn(file.header, <<"county_name_clean", "countyclean", "county">>)

\* Fault: only the existence of the file is tested.
counties_fatal_unless_exists(file) == ~file.exists

\* The two SystemExit cases of startup: no file, or a column missing.
counties_fatal(file) ==
    ~file.exists \/ s_col_of(file) = 0 \/ c_col_of(file) = 0

load_counties(file) == county_rows(file.rows, s_col_of(file), c_col_of(file))

\* all_keys = [(s, c, d) for (s, c) in counties for d in DISASTERS]
RECURSIVE all_keys(_)
all_keys(counties) ==
    IF counties = <<>> THEN <<>>
    ELSE [i \in 1..Len(DISASTERS) |->
            <<Head(counties)[1], Head(counties)[2], DISASTERS[i]>>]
         \o all_keys(Tail(counties))

\* ------------------------------------------------------------------------
\* The resume ledger (LOG_CSV) and the output sink (OUT_NDJSON).  A file is
\* [exists, rows]; a ledger row is a sequence of cells, the first row of a
\* ledger the program wrote being its header.
\* ------------------------------------------------------------------------
LedgerHeader == <<"state", "county", "disaster", "date_groups", "articles">>

NoFile == [exists |-> FALSE, rows |-> <<>>]

\* A file of size zero.
EmptyFile == [exists |-> TRUE, rows |-> <<>>]

\* Fault: the header is written at every append.
need_header_always(file) == TRUE

need_header(file) == ~file.exists \/ file.rows = <<>>

\* Fault: the two counts in each other's column.
log_progress_swapped(file, state, county, disaster, n_dates, n_articles) ==
    [exists |-> TRUE,
     rows |-> (IF need_header(file) THEN file.rows \o <<LedgerHeader>>
               ELSE file.rows)
              \o <<(<<state, county, disaster, n_articles, n_dates>>)>>]

log_progress(file, state, county, disaster, n_dates, n_articles) ==
    [exists |-> TRUE,
     rows |-> (IF need_header(file) THEN file.rows \o <<LedgerHeader>>
               ELSE file.rows)
              \o <<(<<state, county, disaster, n_dates, n_articles>>)>>]

\* Fault: the ledger is not read.
load_done_keys_none(file) == {}

load_done_keys(file) ==
    IF ~file.exists \/ file.rows = <<>> THEN {}
    ELSE LET header == Head(file.rows)
             s == ColumnOf(header, "state")
             c == ColumnOf(header, "county")
             d == ColumnOf(header, "disaster")
             key(row) == <<Strip(CellOf(row, s)), Strip(CellOf(row, c)),
                           Strip(CellOf(row, d))>>
         IN  IF s = 0 \/ c = 0 \/ d = 0 THEN {}
             ELSE {key(file.rows[i]) : i \in
                     {j \in 2..Len(file.rows) :
                        /\ key(file.rows[j])[1] # ""
                        /\ key(file.rows[j])[2] # ""
                        /\ key(file.rows[j])[3] # ""}}

\* Fault: the done keys are not dropped.
pending_of_unfiltered(keys, done) == keys

\* pending = [k for k in all_keys if k not in done]
RECURSIVE pending_of(_, _)
pending_of(keys, done) ==
    IF keys = <<>> THEN <<>>
    ELSE (IF Head(keys) \in done THEN <<>> ELSE <<Head(keys)>>)
         \o pending_of(Tail(keys), done)

\* random.shuffle(pending): any arrangement of the same elements.
Shuffles(seq) ==
    {[i \in 1..Len(seq) |-> seq[p[i]]] :
       p \in {q \in [1..Len(seq) -> 1..Len(seq)] :
                \A i, j \in 1..Len(seq) : i # j => q[i] # q[j]}}

\* Fault: the queue is not cut.
chunked_whole(seq, size) == IF seq = <<>> THEN <<>> ELSE <<seq>>

\* chunked(iterable, size): consecutive slices of `size`, the last shorter.
RECURSIVE chunked(_, _)
chunked(seq, size) ==
    IF seq = <<>> THEN <<>>
    ELSE IF Len(seq) <= size THEN <<seq>>
    ELSE <<SubSeq(seq, 1, size)>> \o chunked(SubSeq(seq, size + 1, Len(seq)), size)

\* ------------------------------------------------------------------------
\* The normalizer.  A response body is [len, marker, rows]: its length, whether
\* it contains "DocumentIdentifier", and its csv.DictReader rows.  A URL is
\* [pad, scheme, host, path]; pad stands for surrounding white space.
\* ------------------------------------------------------------------------
EmptyText == [len |-> 0, marker |-> FALSE, rows |-> <<>>]

EmptyUrl == [pad |-> FALSE, scheme |-> "", host |-> "", path |-> ""]

StripUrl(u) == [u EXCEPT !.pad = FALSE]

\* re.search(r"https?://([^/]+)", url): the network location, "" without one.
UrlHost(u) ==
    IF u.scheme \in {"http", "https"} /\ u.host # "" THEN u.host ELSE ""

\* by_date, an insertion-ordered dict, as a sequence of [date, arts].
AddToDate(by_date, date, art) ==
    IF \E i \in 1..Len(by_date) : by_date[i].date = date
    THEN [i \in 1..Len(by_date) |->
            IF by_date[i].date = date
            THEN [by_date[i] EXCEPT !.arts = @ \o <<art>>]
            ELSE by_date[i]]
    ELSE by_date \o <<[date |-> date, arts |-> <<art>>]>>

\* Fault: seen_urls is not consulted.
RECURSIVE scan_rows_all(_, _)
scan_rows_all(rows, acc) ==
    IF rows = <<>> THEN acc
    ELSE LET row == Head(rows)
             url == StripUrl(row.DocumentIdentifier)
             date_str == normalize_date(row.Date)
             source == IF row.SourceCommonName # "" THEN row.SourceCommonName
                       ELSE UrlHost(url)
             art == [title |-> row.Title, url |-> url, source |-> source]
         IN  IF url = EmptyUrl \/ date_str = <<>>
             THEN scan_rows_all(Tail(rows), acc)
             ELSE scan_rows_all(Tail(rows),
                                [seen_urls |-> acc.seen_urls \cup {url},
                                 by_date |-> AddToDate(acc.by_date, date_str, art)])

\* Fault: a URL is marked as seen only once its row's date has normalized.
RECURSIVE scan_rows_seen_after_date(_, _)
scan_rows_seen_after_date(rows, acc) ==
    IF rows = <<>> THEN acc
    ELSE LET row == Head(rows)
             url == StripUrl(row.DocumentIdentifier)
             date_str == normalize_date(row.Date)
             source == IF row.SourceCommonName # "" THEN row.SourceCommonName
                       ELSE UrlHost(url)
             art == [title |-> row.Title, url |-> url, source |-> source]
         IN  IF url = EmptyUrl \/ url \in acc.seen_urls \/ date_str = <<>>
             THEN scan_rows_seen_after_date(Tail(rows), acc)
             ELSE scan_rows_seen_after_date(Tail(rows),
                            [seen_urls |-> acc.seen_urls \cup {url},
                             by_date |-> AddToDate(acc.by_date, date_str, art)])

\* The loop over the rows: acc is [seen_urls, by_date].
RECURSIVE scan_rows(_, _)
scan_rows(rows, acc) ==
    IF rows = <<>> THEN acc
    ELSE LET row == Head(rows)
             url == StripUrl(row.DocumentIdentifier)
             date_str == normalize_date(row.Date)
             source == IF row.SourceCommonName # "" THEN row.SourceCommonName
                       ELSE UrlHost(url)
             art == [title |-> row.Title, url |-> url, source |-> source]
         IN  IF url = EmptyUrl \/ url \in acc.seen_urls
             THEN scan_rows(Tail(rows), acc)
             ELSE IF date_str = <<>>
             THEN scan_rows(Tail(rows),
                            [acc EXCEPT !.seen_urls = @ \cup {url}])
             ELSE scan_rows(Tail(rows),
                            [seen_urls |-> acc.seen_urls \cup {url},
                             by_date |-> AddToDate(acc.by_date, date_str, art)])

\* out.sort(key=date, reverse=True): a stable sort, newest first.
RECURSIVE InsertDesc(_, _)
InsertDesc(sorted, g) ==
    IF sorted = <<>> THEN <<g>>
    ELSE IF StrLess(Head(sorted).date, g.date) THEN <<g>> \o sorted
    ELSE <<Head(sorted)>> \o InsertDesc(Tail(sorted), g)

\* Fault: the groups stay in the order of by_date.
SortDescNot(seq) == seq

RECURSIVE SortDesc(_)
SortDesc(seq) ==
    IF seq = <<>> THEN <<>>
    ELSE InsertDesc(SortDesc(SubSeq(seq, 1, Len(seq) - 1)), seq[Len(seq)])

rows_from_csv_text(csv_text, state, county, disaster) ==
    IF csv_text.len = 0 \/ ~csv_text.marker THEN <<>>
    ELSE LET by_date == scan_rows(csv_text.rows,
                                  [seen_urls |-> {}, by_date |-> <<>>]).by_date
             out == [i \in 1..Len(by_date) |->
                       [state |-> state, county |-> county,
                        date |-> by_date[i].date, disaster |-> disaster,
                        articles |-> by_date[i].arts]]
         IN  SortDesc(out)

RECURSIVE SumArticles(_)
SumArticles(entries) ==
    IF entries = <<>> THEN 0
    ELSE Len(Head(entries).articles) + SumArticles(Tail(entries))

\* ------------------------------------------------------------------------
\* The adaptive multiplier, a fraction [n, d] in lowest terms.
\* ------------------------------------------------------------------------
RECURSIVE Gcd(_, _)
Gcd(a, b) == IF b = 0 THEN a ELSE Gcd(b, a % b)

Frac(n, d) == [n |-> n \div Gcd(n, d), d |-> d \div Gcd(n, d)]

FracLess(f, g) == f.n * g.d < g.n * f.d

FracMin(f, g) == IF FracLess(g, f) THEN g ELSE f

FracMax(f, g) == IF FracLess(f, g) THEN g ELSE f

One == Frac(1, 1)

MaxFactor == Frac(ADAPTIVE_MAX_FACTOR, 1)

\* Fault: the bump is not capped.
bump_adaptive_uncapped(f) == Frac(f.n * 5, f.d * 4)

\* Fault: a 429 leaves the multiplier as it is.
bump_adaptive_none(f) == f

\* _adaptive_factor = min(ADAPTIVE_MAX_FACTOR, _adaptive_factor * 1.25)
bump_adaptive(f) == FracMin(MaxFactor, Frac(f.n * 5, f.d * 4))

\* _adaptive_factor = max(1.0, _adaptive_factor * 0.8)
decay_adaptive(f) == FracMax(One, Frac(f.n * 4, f.d * 5))

\* base_interval = 60.0 / max(RATE_LIMIT_RPM, 1), in ticks.
base_interval == (60 * TicksPerSec) \div Max(RATE_LIMIT_RPM, 1)

\* interval = max(MIN_API_INTERVAL, base_interval) * _adaptive_factor, as the
\* first whole tick at or after it.
interval_of(f) ==
    (Max(MIN_API_INTERVAL, base_interval) * f.n + f.d - 1) \div f.d

\* A timestamp's age after d more ticks.
AgeCap == ADAPTIVE_DECAY_SEC + 1

Aged(age, d) == Min(age + d, AgeCap)

\* ------------------------------------------------------------------------
\* Inputs: Census rows, response bodies, responses.
\* ------------------------------------------------------------------------
Census(geoid, name, kind, part) ==
    [state_name |-> "Virginia", county_geoid |-> geoid,
     label |-> [name |-> name, kind |-> kind, county_part |-> part]]

BedfordCounty == Census("51019", "Bedford", "County", "Bedford County")
RichmondCounty == Census("51159", "Richmond", "County", "Richmond County")
RichmondCity == Census("51760", "Richmond", "city", "Richmond city")

\* Census results, sorted by FIPS code as fetch_counties.main leaves them.
CensusInputs ==
    {<<RichmondCounty>>, <<BedfordCounty, RichmondCounty>>,
     <<RichmondCounty, RichmondCity>>}

counties_file(census) ==
    [exists |-> TRUE, header |-> CountiesHeader,
     rows |-> [i \in 1..Len(census) |-> census_row(census[i])]]

CountyFiles ==
    {counties_file(c) : c \in CensusInputs}
    \cup {[exists |-> FALSE, header |-> <<>>, rows |-> <<>>],
          [exists |-> TRUE, header |-> <<"state_name", "county_geoid">>,
           rows |-> <<(<<"Virginia", "51159">>)>>],
          [exists |-> TRUE, header |-> <<"county_geoid", "County">>,
           rows |-> <<(<<"51159", "Richmond">>)>>]}

Chars14(y4, m1, m2, d1, d2) ==
    <<"2", "0", "2", y4, m1, m2, d1, d2, "0", "0", "0", "0", "0", "0">>

Jan01 == Chars14("3", "0", "1", "0", "1")
Jan02 == Chars14("3", "0", "1", "0", "2")

Url(host, path) ==
    [pad |-> FALSE, scheme |-> "https", host |-> host, path |-> path]

CsvRow(url, date, title, source) ==
    [DocumentIdentifier |-> url, Date |-> date, Title |-> title,
     SourceCommonName |-> source]

Body(len, marker, rows) == [len |-> len, marker |-> marker, rows |-> rows]

\* Two dates, oldest first; a URL repeated under another title: two
\* DateGroups, three articles.
BodyRich ==
    Body(400, TRUE, <<CsvRow(Url("h1", "a"), Jan01, "t1", "s1"),
                      CsvRow(Url("h1", "a"), Jan01, "t1bis", "s1"),
                      CsvRow(Url("h2", "b"), Jan01, "t2", ""),
                      CsvRow(Url("h3", "c"), Jan02, "t3", "s3")>>)

\* One row.
BodyOne == Body(200, TRUE, <<CsvRow(Url("h1", "a"), Jan02, "t1", "s1")>>)

\* The header line alone, padded past the length test.
BodyNoRows == Body(150, TRUE, <<>>)

BodyShort == Body(50, TRUE, <<>>)

BodyNoMarker == Body(300, FALSE, <<>>)

\* The Retry-After header: whether it is there, whether float() reads it,
\* and the delay it asks for, in ticks.
NoRetryAfter == [given |-> FALSE, numeric |-> FALSE, ticks |-> 0]

RetryAfter(sec) ==
    [given |-> TRUE, numeric |-> TRUE, ticks |-> sec * TicksPerSec]

\* An HTTP date, sec seconds ahead.
RetryAfterDate(sec) ==
    [given |-> TRUE, numeric |-> FALSE, ticks |-> sec * TicksPerSec]

\* status 0 stands for a connection failure or a read timeout.
Response(status, body, ra) ==
    [status |-> status, body |-> body, retry_after |-> ra]

NoResponse == Response(0, EmptyText, NoRetryAfter)

\* RETRIES of the scheduler's specification, which runs the retry loop on a
\* smaller budget than the program's 8.
StubRetries == 2

\* A setting of a behaviour: whether the upstream is a stub, which answers
\* all the requests of one fetch_gdelt call alike, the responses a live
\* upstream may give, the time a request may take, whether a random draw
\* may take either end of its range or its low end only, the monotonic clock
\* at process start, the retry budget, and the number up to which the
\* requests of one fetch_gdelt call are counted (0: not counted).
StubWorld ==
    [stub |-> TRUE,
     responses |-> {},
     latencies |-> {0},
     both_ends |-> FALSE,
     uptimes |-> {AgeCap},
     retries |-> StubRetries,
     sends_cap |-> 4 * StubRetries + 1]

\* What the stub answers for a key.
StubAnswers(key) ==
    CASE key[2] = "Bedford" /\ key[3] = "hurricane" ->
           {Response(200, BodyRich, NoRetryAfter),
            Response(200, BodyNoRows, NoRetryAfter)}
      [] key[2] = "Bedford" /\ key[3] = "flood" ->
           {Response(429, EmptyText, NoRetryAfter)}
      [] key[2] = "Richmond" /\ key[3] = "hurricane" ->
           {Response(503, EmptyText, NoRetryAfter)}
      [] OTHER ->
           {Response(200, BodyShort, NoRetryAfter), NoResponse}

LiveWorld ==
    [stub |-> FALSE,
     responses |-> {Response(200, BodyOne, NoRetryAfter),
                    Response(429, EmptyText, NoRetryAfter),
                    Response(429, EmptyText, RetryAfter(700)),
                    Response(503, EmptyText, NoRetryAfter)},
     latencies |-> {0},
     both_ends |-> FALSE,
     uptimes |-> {AgeCap},
     retries |-> RETRIES,
     sends_cap |-> 0]

\* random.uniform(lo, hi), in ticks.
Uniform(w, lo, hi) == IF w.both_ends THEN {lo, hi} ELSE {lo}

\* ------------------------------------------------------------------------
\* State.
\* ------------------------------------------------------------------------
VARIABLES
    counties_csv,      \* COUNTIES_CSV
    ledger,            \* LOG_CSV
    sink,              \* OUT_NDJSON, a sequence of lines
    pc,                \* where main() is
    done,              \* main: done = load_done_keys(LOG_CSV)
    pending,           \* main: pending, after the shuffle
    idx,               \* main: idx of the chunk loop
    kpos,              \* main: position of the key loop in the chunk
    _running,          \* _running
    entries,           \* main: entries
    wpos,              \* append_ndjson: the next record to write
    fpc,               \* where fetch_gdelt() is
    attempt,           \* fetch_gdelt: attempt
    backoff,           \* fetch_gdelt: backoff
    streak_429,        \* fetch_gdelt: streak_429
    throttles,         \* history: the 429s in a row of this fetch_gdelt call
    sends,             \* history: the requests this fetch_gdelt call has sent
    resp,              \* fetch_gdelt: r, the response in hand
    sess_total,        \* the session's Retry: re-sends left for this get()
    csv_text,          \* main: csv_text, what fetch_gdelt returned
    since_request,     \* time.monotonic() - _last_request_ts
    since_429,         \* time.monotonic() - _last_429_ts
    since_adapt,       \* time.monotonic() - _last_adapt_ts
    _adaptive_factor,  \* _adaptive_factor
    run,               \* history: the number of the running process
    starts,            \* history: fetch_gdelt calls per key, over all runs
    fetched,           \* history: the key of each fetch_gdelt call of this run
    returned,          \* history: what each fetch_gdelt call of this run returned
    at_start,          \* history: the files' lengths when this process started
    cooldowns,         \* history: inter-chunk cool-downs of this run
    sigint,            \* history: the first SIGINT of this run
    since_send,        \* history: time since the fetch loop's last request
    send,              \* history: the last request sent
    gate               \* history: the last rate_limit_sleep() call

files == <<counties_csv, ledger, sink>>
queue == <<done, pending, idx, kpos>>
batch == <<entries, wpos>>
floc == <<attempt, backoff, streak_429, throttles, sends>>
clocks == <<since_request, since_429, since_adapt, since_send>>
runh == <<run, starts, fetched, at_start, cooldowns, sigint>>
vars == <<files, pc, queue, _running, batch, fpc, floc, resp, sess_total,
          csv_text, clocks, _adaptive_factor, runh, returned, send, gate>>

chunks_iter == chunked(pending, CHUNK_SIZE)

\* The key in flight: (state, county_clean, disaster) of the key loop.
cur_key == chunks_iter[idx][kpos]

\* Every key of every input.
KeySpace ==
    {<<"Virginia", c, DISASTERS[i]>> :
       c \in {"Bedford", "Richmond"}, i \in 1..Len(DISASTERS)}

\* throttles: how many of the last outcomes of this call were 429s in a row
\* (counted in threes), whether the handling of the last outcome took the
\* extended cool-down, and how long that was.
NoThrottles == [run |-> 0, cooled |-> FALSE, cool |-> 0]

NoSigint == [seen |-> FALSE, in_flight |-> FALSE, key |-> <<>>,
             fetched |-> 0, cooldowns |-> 0]

\* send: whether a request was sent yet by this process, whether the fetch
\* loop sent the last one (not the session re-sending), whether its own
\* rate_limit_sleep() and cool-off check came before it, whether the fetch
\* loop had sent one before, the time since that one and the interval of
\* the last gate.
NoSend == [any |-> FALSE, by_loop |-> FALSE, gated |-> FALSE,
           second |-> FALSE, gap |-> 0, interval |-> 0]

\* gate: the calls so far (2 for more), the time between the returns of the
\* last two, the intervals the last two computed, whether a 429 bumped the
\* multiplier between them (bumped: since the last one), whether the last
\* call decayed the multiplier; armed from the cool-off check that follows
\* the call until a request uses it; throttled once this process has
\* handled a 429.
NoGate == [calls |-> 0, gap |-> 0, interval |-> 0, prev_interval |-> 0,
           after_bump |-> FALSE, decayed |-> FALSE, bumped |-> FALSE,
           armed |-> FALSE, throttled |-> FALSE]

\* A process that holds nothing yet, or nothing any more.
blank ==
    /\ done = {}
    /\ pending = <<>>
    /\ idx = 0
    /\ kpos = 0
    /\ _running = TRUE
    /\ entries = <<>>
    /\ wpos = 0
    /\ fpc = "idle"
    /\ attempt = 0
    /\ backoff = SLEEP_BASE
    /\ streak_429 = 0
    /\ throttles = NoThrottles
    /\ sends = 0
    /\ resp = NoResponse
    /\ sess_total = 0
    /\ csv_text = EmptyText
    /\ _adaptive_factor = One
    /\ fetched = <<>>
    /\ returned = <<>>
    /\ cooldowns = 0
    /\ sigint = NoSigint
    /\ since_send = 0
    /\ send = NoSend
    /\ gate = NoGate

\* The ledger a first run may find: none, or, tried with the shortest
\* entity list, a file of size zero.
LedgerInputs(counties) ==
    IF counties = counties_file(<<RichmondCounty>>) THEN {NoFile, EmptyFile}
    ELSE {NoFile}

InitIn(w) ==
    /\ counties_csv \in CountyFiles
    /\ ledger \in LedgerInputs(counties_csv)
    /\ sink = <<>>
    /\ pc = "start"
    /\ blank
    /\ \E up \in w.uptimes :
         since_request = up /\ since_429 = up /\ since_adapt = up
    /\ run = 1
    /\ starts = [k \in KeySpace |-> 0]
    /\ at_start = [ledger |-> 0, sink |-> 0]

\* d ticks pass: every timestamp ages.
Pass(d) ==
    /\ since_request' = Aged(since_request, d)
    /\ since_429' = Aged(since_429, d)
    /\ since_adapt' = Aged(since_adapt, d)
    /\ since_send' = Aged(since_send, d)

\* The same, and the fetch loop's request leaves at the start of the d ticks.
PassFromSend(d) ==
    /\ since_request' = Aged(since_request, d)
    /\ since_429' = Aged(since_429, d)
    /\ since_adapt' = Aged(since_adapt, d)
    /\ since_send' = Aged(0, d)

\* ------------------------------------------------------------------------
\* main(): startup.
\* ------------------------------------------------------------------------
\* From the existence test of COUNTIES_CSV to the warm-up test: load the
\* counties (SystemExit without the file or a column), build the keys, drop
\* the done ones, shuffle.
\* Fault: the warm-up is never found due.
warmup_due_never(p) == FALSE

\* if pending
warmup_due(p) == p # <<>>

Startup ==
    /\ pc = "start"
    /\ IF counties_fatal(counties_csv)
       THEN /\ pc' = "aborted"
            /\ UNCHANGED <<done, pending>>
       ELSE \E counties \in {load_counties(counties_csv)},
               done_keys \in {load_done_keys(ledger)} :
              \E unshuffled \in {pending_of(all_keys(counties), done_keys)} :
                \E shuffled \in Shuffles(unshuffled) :
                  /\ done' = done_keys
                  /\ pending' = shuffled
                  /\ pc' = IF warmup_due(shuffled) THEN "warmup" ELSE "chunk"
    /\ idx' = 1
    /\ UNCHANGED <<files, kpos, _running, batch, fpc, floc, resp, sess_total,
                   csv_text, clocks, _adaptive_factor, runh, returned, send,
                   gate>>

\* time.sleep(STARTUP_WARMUP_SEC)
Warmup ==
    /\ pc = "warmup"
    /\ pc' = "chunk"
    /\ Pass(STARTUP_WARMUP_SEC)
    /\ UNCHANGED <<files, queue, _running, batch, fpc, floc, resp, sess_total,
                   csv_text, _adaptive_factor, runh, returned, send, gate>>

\* The head of the chunk loop: the end of the chunks, or the break when
\* _running is off, ends the run.
ChunkHead ==
    /\ pc = "chunk"
    /\ IF idx > Len(chunks_iter) \/ ~_running
       THEN pc' = "done" /\ kpos' = kpos
       ELSE pc' = "key" /\ kpos' = 1
    /\ UNCHANGED <<files, done, pending, idx, _running, batch, fpc, floc,
                   resp, sess_total, csv_text, clocks, _adaptive_factor, runh,
                   returned, send, gate>>

\* Fault: the key loop does not look at _running.
key_loop_ends_unbroken == kpos > Len(chunks_iter[idx])

\* for (state, county_clean, disaster) in ch: if not _running: break
key_loop_ends == kpos > Len(chunks_iter[idx]) \/ ~_running

\* The head of the key loop: the end of the chunk or the break, else the
\* key's query is built and fetch_gdelt(q) is entered.
KeyHead ==
    /\ pc = "key"
    /\ IF key_loop_ends
       THEN /\ pc' = "chunk_end"
            /\ UNCHANGED <<fpc, floc, starts, fetched>>
       ELSE /\ pc' = "fetch"
            /\ fpc' = "gate"
            /\ attempt' = 1
            /\ backoff' = SLEEP_BASE
            /\ streak_429' = 0
            /\ throttles' = NoThrottles
            /\ sends' = 0
            /\ starts' = [starts EXCEPT ![cur_key] = @ + 1]
            /\ fetched' = Append(fetched, cur_key)
    /\ UNCHANGED <<files, queue, _running, batch, resp, sess_total, csv_text,
                   clocks, _adaptive_factor, run, at_start, cooldowns, sigint,
                   returned, send, gate>>

\* Fault: the last chunk is followed by a cool-down too.
cooldown_due_after_any == _running

\* if idx < len(chunks_iter) and _running
cooldown_due == idx < Len(chunks_iter) /\ _running

\* The end of a chunk: the cool-down after a chunk that is not the last,
\* while _running is on.
ChunkEnd ==
    /\ pc = "chunk_end"
    /\ pc' = "chunk"
    /\ idx' = idx + 1
    /\ IF cooldown_due
       THEN /\ Pass(CHUNK_COOLDOWN_SEC)
            /\ cooldowns' = cooldowns + 1
       ELSE UNCHANGED <<clocks, cooldowns>>
    /\ UNCHANGED <<files, done, pending, kpos, _running, batch, fpc, floc,
                   resp, sess_total, csv_text, _adaptive_factor, run, starts,
                   fetched, at_start, sigint, returned, send, gate>>

\* ------------------------------------------------------------------------
\* fetch_gdelt(): one attempt is a gate, a cool-off check, a request (with
\* the session's re-sends) and the handling of its response.
\* ------------------------------------------------------------------------
\* Fault: the jitter alone is slept.
wait_of_jitter_only(interval, elapsed, jitter) == jitter

\* wait = max(0.0, interval - (now - _last_request_ts)) + jitter
wait_of(interval, elapsed, jitter) == Max(0, interval - elapsed) + jitter

\* Fault: the decay does not wait for the window.
decay_due_at_once(factor, since) == FracLess(One, factor)

\* if _adaptive_factor > 1.0 and
\*    (time.monotonic() - _last_adapt_ts) > ADAPTIVE_DECAY_SEC
decay_due(factor, since) ==
    FracLess(One, factor) /\ since > ADAPTIVE_DECAY_SEC

\* rate_limit_sleep(): decay, interval, wait with jitter, sleep, stamp.
rate_limit_sleep(w) ==
    LET decays == decay_due(_adaptive_factor, since_adapt)
        factor == IF decays THEN decay_adaptive(_adaptive_factor)
                  ELSE _adaptive_factor
        interval == interval_of(factor)
    IN  \E jitter \in Uniform(w, 3, 15) :
          LET wait == wait_of(interval, since_request, jitter)
          IN  /\ _adaptive_factor' = factor
              /\ since_adapt' = IF decays THEN wait ELSE Aged(since_adapt, wait)
              /\ since_429' = Aged(since_429, wait)
              /\ since_send' = Aged(since_send, wait)
              /\ since_request' = 0
              /\ gate' = [calls |-> Min(gate.calls + 1, 2),
                          gap |-> Aged(since_request, wait),
                          interval |-> interval,
                          prev_interval |-> gate.interval,
                          after_bump |-> gate.bumped,
                          decayed |-> decays,
                          bumped |-> FALSE,
                          armed |-> FALSE,
                          throttled |-> gate.throttled]

Gate(w) ==
    /\ pc = "fetch" /\ fpc = "gate"
    /\ rate_limit_sleep(w)
    /\ fpc' = "cooloff"
    /\ UNCHANGED <<files, pc, queue, _running, batch, floc, resp, sess_total,
                   csv_text, runh, returned, send>>

\* Fault: the cool-off is never found due.
cooloff_due_never(since) == FALSE

\* if since < GLOBAL_429_COOLDOWN
cooloff_due(since) == since < GLOBAL_429_COOLDOWN

\* The global cool-off: since = time.monotonic() - _last_429_ts.
CoolOff(w) ==
    /\ pc = "fetch" /\ fpc = "cooloff"
    /\ IF cooloff_due(since_429)
       THEN \E jitter \in Uniform(w, 6, 30) :
              Pass(GLOBAL_429_COOLDOWN - since_429 + jitter)
       ELSE UNCHANGED clocks
    /\ fpc' = "get"
    /\ gate' = [gate EXCEPT !.armed = TRUE]
    /\ UNCHANGED <<files, pc, queue, _running, batch, floc, resp, sess_total,
                   csv_text, _adaptive_factor, runh, returned, send>>

\* What the upstream may answer to the next request: a stub answers all the
\* requests of one fetch_gdelt call alike.
Answers(w) ==
    IF ~w.stub THEN w.responses
    ELSE IF attempt = 1 /\ fpc = "get" THEN StubAnswers(cur_key)
    ELSE {resp}

\* r = SESSION.get(url, timeout=TIMEOUT): the request leaves, the upstream
\* answers or the connection fails.  The session's Retry allows 3 re-sends.
Get(w) ==
    /\ pc = "fetch" /\ fpc = "get"
    /\ resp' \in Answers(w)
    /\ \E latency \in w.latencies : PassFromSend(latency)
    /\ sess_total' = 3
    /\ sends' = Min(sends + 1, w.sends_cap)
    /\ fpc' = "session"
    /\ send' = [any |-> TRUE, by_loop |-> TRUE, gated |-> gate.armed,
                second |-> send.any, gap |-> since_send,
                interval |-> gate.interval]
    /\ gate' = [gate EXCEPT !.armed = FALSE]
    /\ UNCHANGED <<files, pc, queue, _running, batch, attempt, backoff,
                   streak_429, throttles, csv_text,
                   _adaptive_factor, runh, returned>>

\* What the session's Retry(total=3, read=3, connect=3, backoff_factor=1.0,
\* status_forcelist=(502, 503, 504), allowed_methods=("GET",),
\* raise_on_status=False) re-sends by itself: a failed connection or read, a
\* status of the list, and a 413, 429 or 503 that carries Retry-After.
session_retries(r) ==
    \/ r.status = 0
    \/ r.status \in {502, 503, 504}
    \/ r.status \in {413, 429, 503} /\ r.retry_after.given

\* A Retry-After the session cannot read as a delay (digits alone, or a
\* date): it raises instead of sleeping.
session_raises(r) ==
    r.status \in {413, 429, 503} /\ r.retry_after.given
    /\ r.retry_after.numeric /\ r.retry_after.ticks < 0

\* The session sleeps (Retry-After, or its own backoff, which is nothing
\* for the first re-send in some releases of the library) and re-sends; on
\* a Retry-After it cannot read, SESSION.get raises.
SessionResend(w) ==
    /\ pc = "fetch" /\ fpc = "session"
    /\ sess_total > 0 /\ session_retries(resp)
    /\ IF session_raises(resp)
       THEN /\ sess_total' = 0
            /\ resp' = NoResponse
            /\ UNCHANGED <<clocks, sends, send>>
       ELSE /\ sess_total' = sess_total - 1
            /\ sends' = Min(sends + 1, w.sends_cap)
            /\ resp' \in Answers(w)
            /\ \E latency \in w.latencies :
               \E nap \in IF resp.retry_after.given
                              /\ resp.status \in {413, 429, 503}
                           THEN {resp.retry_after.ticks}
                           ELSE Uniform(w, 0, TicksPerSec) :
                 Pass(nap + latency)
            /\ send' = [send EXCEPT !.by_loop = FALSE, !.gated = gate.armed]
    /\ UNCHANGED <<files, pc, queue, _running, batch, fpc, attempt, backoff,
                   streak_429, throttles, csv_text,
                   _adaptive_factor, runh, returned, gate>>

\* SESSION.get returns (or raises) once the session re-sends no more.
delivered ==
    /\ pc = "fetch" /\ fpc = "session"
    /\ ~(sess_total > 0 /\ session_retries(resp))

\* Fault: the loop has no last attempt.
next_attempt_forever(w) ==
    /\ attempt' = attempt + 1
    /\ fpc' = "gate"
    /\ UNCHANGED <<csv_text, returned>>

\* for attempt in range(1, RETRIES + 1): the end of a failed attempt is the
\* next one, or the return of "" after the last.
next_attempt(w) ==
    IF attempt < w.retries
    THEN /\ attempt' = attempt + 1
         /\ fpc' = "gate"
         /\ UNCHANGED <<csv_text, returned>>
    ELSE /\ fpc' = "return"
         /\ csv_text' = EmptyText
         /\ returned' = Append(returned, EmptyText)
         /\ UNCHANGED attempt

\* Fault: the backoff grows without a ceiling.
next_backoff_uncapped(b) == b * 2

\* backoff = min(backoff * 2, BACKOFF_MAX)
next_backoff(b) == Min(b * 2, BACKOFF_MAX)

\* Fault: every 200 is a success.
is_success_any_200(r) == r.status = 200

\* r.status_code == 200 and "DocumentIdentifier" in txt and len(txt) > 100
is_success(r) == r.status = 200 /\ r.body.marker /\ r.body.len > 100

\* status 200 with the marker and more than 100 characters: the success
\* delay, and the text is returned.
OnSuccess ==
    /\ delivered
    /\ is_success(resp)
    /\ Pass(2 * TicksPerSec)
    /\ csv_text' = resp.body
    /\ returned' = Append(returned, resp.body)
    /\ fpc' = "return"
    /\ UNCHANGED <<files, pc, queue, _running, batch, floc, resp, sess_total,
                   _adaptive_factor, runh, send, gate>>

\* Fault: the header is not looked at.
hint_read_never(ra) == FALSE

\* sleep_s = float(ra) if ra else ...: the header is there and float()
\* reads it.
hint_read(ra) == ra.given /\ ra.numeric

\* time.sleep(sleep_s) raises ValueError on a negative length: the rest of
\* the 429 branch is skipped and the generic retry sleeps and doubles.
sleep_raises(ra) == hint_read(ra) /\ ra.ticks < 0

\* status 429: stamp, bump, sleep Retry-After or the backoff, and the long
\* cool-down when streak_429 has come to 3.
On429(w) ==
    /\ delivered
    /\ ~is_success(resp) /\ resp.status = 429
    /\ _adaptive_factor' = bump_adaptive(_adaptive_factor)
    /\ \E jitter \in Uniform(w, 0, 30), extra \in Uniform(w, 0, 60 * TicksPerSec) :
         LET ra == resp.retry_after
             sleep_s == IF hint_read(ra) /\ ~sleep_raises(ra) THEN ra.ticks
                        ELSE backoff + jitter
             cools == ~sleep_raises(ra) /\ streak_429 + 1 >= 3
             cool == IF cools THEN 300 * TicksPerSec + extra ELSE 0
         IN  /\ since_429' = Aged(0, sleep_s + cool)
             /\ since_adapt' = Aged(0, sleep_s + cool)
             /\ since_request' = Aged(since_request, sleep_s + cool)
             /\ since_send' = Aged(since_send, sleep_s + cool)
             /\ throttles' = [run |-> (throttles.run % 3) + 1,
                              cooled |-> cools,
                              cool |-> cool]
             /\ streak_429' = IF cools THEN 0 ELSE streak_429 + 1
    /\ backoff' = next_backoff(backoff)
    /\ gate' = [gate EXCEPT !.bumped = TRUE, !.throttled = TRUE]
    /\ next_attempt(w)
    /\ UNCHANGED <<files, pc, queue, _running, batch, sends, resp, sess_total, runh,
                   send>>

\* status 502, 503 or 504, and any other response or an exception (the
\* generic retry): sleep the backoff, double it.
OnFailure(w) ==
    /\ delivered
    /\ ~is_success(resp) /\ resp.status # 429
    /\ \E jitter \in Uniform(w, 0, 30) : Pass(backoff + jitter)
    /\ backoff' = next_backoff(backoff)
    /\ next_attempt(w)
    /\ throttles' = NoThrottles
    /\ UNCHANGED <<files, pc, queue, _running, batch, streak_429, sends, resp,
                   sess_total, _adaptive_factor, runh, send, gate>>

\* ------------------------------------------------------------------------
\* main(): the rest of the key loop's body.
\* ------------------------------------------------------------------------
\* entries = rows_from_csv_text(csv_text, ...), and append_ndjson is
\* entered: it opens the file only when there are records.
Normalize ==
    /\ pc = "fetch" /\ fpc = "return"
    /\ \E rows \in {rows_from_csv_text(csv_text, cur_key[1], cur_key[2],
                                       cur_key[3])} :
         /\ entries' = rows
         /\ pc' = IF rows = <<>> THEN "log" ELSE "sink"
    /\ wpos' = 1
    /\ fpc' = "idle"
    /\ UNCHANGED <<files, queue, _running, floc, resp, sess_total, csv_text,
                   clocks, _adaptive_factor, runh, returned, send, gate>>

\* Fault: the record does not reach the file.
append_line_lost(file, rec) == file

\* f.write(json.dumps(rec) + "\n")
append_line(file, rec) == Append(file, rec)

\* append_ndjson: one line per record, in order.
SinkWrite ==
    /\ pc = "sink"
    /\ sink' = append_line(sink, entries[wpos])
    /\ wpos' = wpos + 1
    /\ pc' = IF wpos' > Len(entries) THEN "log" ELSE "sink"
    /\ UNCHANGED <<counties_csv, ledger, queue, _running, entries, fpc, floc,
                   resp, sess_total, csv_text, clocks, _adaptive_factor, runh,
                   returned, send, gate>>

\* Fault: the ledger entry is written only when records were produced.
LogProgressIfRecords ==
    /\ pc = "log"
    /\ ledger' = IF entries = <<>> THEN ledger
                 ELSE log_progress(ledger, cur_key[1], cur_key[2], cur_key[3],
                                   Len(entries), SumArticles(entries))
    /\ kpos' = kpos + 1
    /\ pc' = "key"
    /\ UNCHANGED <<counties_csv, sink, done, pending, idx, _running, batch,
                   fpc, floc, resp, sess_total, csv_text, clocks,
                   _adaptive_factor, runh, returned, send, gate>>

\* n_dates, n_articles, log_progress(...); SLEEP_BETWEEN_KEYS is 0.
LogProgress ==
    /\ pc = "log"
    /\ ledger' = log_progress(ledger, cur_key[1], cur_key[2], cur_key[3],
                              Len(entries), SumArticles(entries))
    /\ kpos' = kpos + 1
    /\ pc' = "key"
    /\ UNCHANGED <<counties_csv, sink, done, pending, idx, _running, batch,
                   fpc, floc, resp, sess_total, csv_text, clocks,
                   _adaptive_factor, runh, returned, send, gate>>

\* ------------------------------------------------------------------------
\* The process and its environment.
\* ------------------------------------------------------------------------
alive == pc \notin {"done", "aborted", "crashed"}

in_flight == pc \in {"fetch", "sink", "log"}

\* _sigint_handler: Ctrl-C at any point of a run.
Sigint ==
    /\ alive
    /\ _running' = FALSE
    /\ sigint' = IF sigint.seen THEN sigint
                 ELSE [seen |-> TRUE, in_flight |-> in_flight,
                       key |-> IF in_flight THEN cur_key ELSE <<>>,
                       fetched |-> Len(fetched), cooldowns |-> cooldowns]
    /\ UNCHANGED <<files, pc, queue, batch, fpc, floc, resp, sess_total,
                   csv_text, clocks, _adaptive_factor, run, starts, fetched,
                   at_start, cooldowns, returned, send, gate>>

\* The memory of a process that is gone.
wiped ==
    /\ done' = {}
    /\ pending' = <<>>
    /\ idx' = 0
    /\ kpos' = 0
    /\ _running' = TRUE
    /\ entries' = <<>>
    /\ wpos' = 0
    /\ fpc' = "idle"
    /\ attempt' = 0
    /\ backoff' = SLEEP_BASE
    /\ streak_429' = 0
    /\ throttles' = NoThrottles
    /\ sends' = 0
    /\ resp' = NoResponse
    /\ sess_total' = 0
    /\ csv_text' = EmptyText
    /\ _adaptive_factor' = One
    /\ fetched' = <<>>
    /\ returned' = <<>>
    /\ cooldowns' = 0
    /\ sigint' = NoSigint
    /\ since_send' = 0
    /\ send' = NoSend
    /\ gate' = NoGate

\* The process is killed: the files stay as they are.
Crash ==
    /\ alive
    /\ pc' = "crashed"
    /\ wiped
    /\ since_request' = 0 /\ since_429' = 0 /\ since_adapt' = 0
    /\ UNCHANGED <<files, run, starts, at_start>>

MaxRuns == 2

\* The program is started again on the same files.
Restart(w) ==
    /\ ~alive
    /\ run < MaxRuns
    /\ run' = run + 1
    /\ pc' = "start"
    /\ wiped
    /\ \E up \in w.uptimes :
         since_request' = up /\ since_429' = up /\ since_adapt' = up
    /\ at_start' = [ledger |-> Len(ledger.rows), sink |-> Len(sink)]
    /\ UNCHANGED <<files, starts>>

\* The scheduler, its files and its restarts, against a stub upstream.
Init == InitIn(StubWorld)

Next ==
    \/ Startup
    \/ Warmup
    \/ ChunkHead
    \/ KeyHead
    \/ Gate(StubWorld)
    \/ CoolOff(StubWorld)
    \/ Get(StubWorld)
    \/ SessionResend(StubWorld)
    \/ OnSuccess
    \/ On429(StubWorld)
    \/ OnFailure(StubWorld)
    \/ Normalize
    \/ SinkWrite
    \/ LogProgress
    \/ ChunkEnd
    \/ Sigint
    \/ Crash
    \/ Restart(StubWorld)

Spec == Init /\ [][Next]_vars

\* The retry loop and the limiter on the program's own retry budget, against
\* a live upstream: one run over the keys of one county.
InitLive ==
    /\ InitIn(LiveWorld)
    /\ counties_csv = counties_file(<<RichmondCounty>>)
    /\ ledger = NoFile

NextLive ==
    \/ Startup
    \/ Warmup
    \/ ChunkHead
    \/ KeyHead
    \/ Gate(LiveWorld)
    \/ CoolOff(LiveWorld)
    \/ Get(LiveWorld)
    \/ SessionResend(LiveWorld)
    \/ OnSuccess
    \/ On429(LiveWorld)
    \/ OnFailure(LiveWorld)
    \/ Normalize
    \/ SinkWrite
    \/ LogProgress
    \/ ChunkEnd

SpecLive == InitLive /\ [][NextLive]_vars

\* The normalizer on its own: fetch_gdelt has just returned a payload for
\* the one key of the queue; main() normalizes it, appends and logs.
MaxRows == 3

\* A date field that does not start with eight digits.
IsoDate == <<"2", "0", "2", "3", "-", "0", "1", "-", "0", "1">>

PaddedUrl(host, path) == [Url(host, path) EXCEPT !.pad = TRUE]

RowSpace ==
    {CsvRow(cell[1], date, cell[2], cell[3]) :
       cell \in {<<Url("h1", "a"), "t1", "">>,
                 <<Url("h1", "a"), "t2", "s2">>,
                 <<PaddedUrl("h1", "a"), "t3", "">>,
                 <<Url("h2", "b"), "t1", "s1">>,
                 <<EmptyUrl, "t1", "s1">>},
       date \in {Jan01, Jan02, IsoDate}}

Payloads ==
    {Body(400, TRUE, rows) :
       rows \in UNION {[1..n -> RowSpace] : n \in 0..MaxRows}}
    \cup {EmptyText}

OneKey == <<"Virginia", "Bedford", "flood">>

InitNormOn(payloads) ==
    /\ counties_csv = counties_file(<<BedfordCounty>>)
    /\ ledger = NoFile
    /\ sink = <<>>
    /\ pc = "fetch"
    /\ done = {}
    /\ pending = <<OneKey>>
    /\ idx = 1
    /\ kpos = 1
    /\ _running = TRUE
    /\ entries = <<>>
    /\ wpos = 0
    /\ fpc = "return"
    /\ attempt = 1
    /\ backoff = SLEEP_BASE
    /\ streak_429 = 0
    /\ throttles = NoThrottles
    /\ sends = 0
    /\ csv_text \in payloads
    /\ resp = Response(IF csv_text = EmptyText THEN 0 ELSE 200, csv_text,
                       NoRetryAfter)
    /\ sess_total = 0
    /\ _adaptive_factor = One
    /\ since_request = 0 /\ since_429 = AgeCap /\ since_adapt = AgeCap
    /\ since_send = 0
    /\ run = 1
    /\ starts = [k \in KeySpace |-> IF k = OneKey THEN 1 ELSE 0]
    /\ fetched = <<OneKey>>
    /\ returned = <<csv_text>>
    /\ at_start = [ledger |-> 0, sink |-> 0]
    /\ cooldowns = 0
    /\ sigint = NoSigint
    /\ send = NoSend
    /\ gate = NoGate

InitNorm == InitNormOn(Payloads)

NextNorm == Normalize \/ SinkWrite \/ LogProgress

SpecNorm == InitNorm /\ [][NextNorm]_vars

\* The normalizer on date fields of every kind: a day of the calendar, eight
\* digits that are none (the 29th of February 2023, the 99th of month 13,
\* the 0th of month 0 of year 0), no digits at the start, no Date column.
DateRows == 2

Feb29 == Chars14("3", "0", "2", "2", "9")
Month13Day99 == Chars14("3", "1", "3", "9", "9")
AllZero == <<"0", "0", "0", "0", "0", "0", "0", "0">>

DateFields == {Jan01, Jan02, Feb29, Month13Day99, AllZero, IsoDate, NoneDate}

DatePayloads ==
    {Body(400, TRUE, rows) :
       rows \in UNION {[1..n -> {CsvRow(Url("h1", "a"), d, "t1", "s1") :
                                  d \in DateFields}
                               \cup {CsvRow(Url("h2", "b"), Jan01, "t2", "s2")}] :
                       n \in 1..DateRows}}

InitDate == InitNormOn(DatePayloads)

NextDate == Normalize \/ SinkWrite \/ LogProgress

SpecDate == InitDate /\ [][NextDate]_vars

\* ------------------------------------------------------------------------
\* The ledger reader on ledgers of other layouts: one run over the keys of
\* two counties, resumed on a ledger whose columns were reordered, renamed
\* in case and spacing, or joined by other columns.
\* ------------------------------------------------------------------------
\* A column of a ledger: its header cell, and the field of an entry it
\* holds (1..5 in the order log_progress writes them, 0 for a column that
\* is not of an entry and holds a note).
Col(name, field) == [name |-> name, field |-> field]

CanonLayout ==
    <<Col("state", 1), Col("county", 2), Col("disaster", 3),
      Col("date_groups", 4), Col("articles", 5)>>

\* Layouts in which one column each answers to state, county and disaster.
NamedLayouts ==
    {CanonLayout,
     <<Col("disaster", 3), Col("state", 1), Col("county", 2),
       Col("articles", 5), Col("date_groups", 4)>>,
     <<Col("county", 2), Col("state", 1), Col("disaster", 3),
       Col("date_groups", 4), Col("articles", 5)>>,
     <<Col(" STATE ", 1), Col("County", 2), Col("Disaster", 3),
       Col("date_groups", 4), Col("articles", 5)>>,
     <<Col("note", 0), Col("state", 1), Col("county", 2), Col("disaster", 3),
       Col("date_groups", 4), Col("articles", 5)>>,
     <<Col("state", 1), Col("county", 2), Col("note", 0), Col("disaster", 3),
       Col("date_groups", 4), Col("articles", 5), Col("run", 0)>>}

\* A layout in which a further column answers to state as well.
ShadowLayout ==
    <<Col("state", 1), Col("county", 2), Col("disaster", 3),
      Col("date_groups", 4), Col("articles", 5), Col("State", 0)>>

\* The entries of earlier runs, as log_progress was given them.
EntryLists ==
    {<<>>,
     <<(<<"Virginia", "Richmond", "hurricane", 0, 0>>),
       (<<"Virginia", "Bedford", "flood", 0, 0>>),
       (<<"Virginia", "Bedford", "hurricane", 2, 3>>)>>,
     <<(<<"Virginia", " Richmond ", "hurricane", 0, 0>>),
       (<<"Virginia", "Bedford", "flood", 0, 0>>),
       (<<"Virginia", "", "hurricane", 2, 3>>)>>}

\* The file of the entries es under a layout: its header row, then a row
\* for each entry.
Render(layout, es) ==
    [exists |-> TRUE,
     rows |-> <<[i \in 1..Len(layout) |-> layout[i].name]>>
              \o [j \in 1..Len(es) |->
                    [i \in 1..Len(layout) |->
                       IF layout[i].field = 0 THEN "x"
                       ELSE es[j][layout[i].field]]]]

LedgerFiles ==
    {NoFile, EmptyFile}
    \cup {Render(l, es) : l \in NamedLayouts \cup {ShadowLayout},
                          es \in EntryLists}

InitLedger ==
    /\ counties_csv = counties_file(<<BedfordCounty, RichmondCounty>>)
    /\ ledger \in LedgerFiles
    /\ sink = <<>>
    /\ pc = "start"
    /\ blank
    /\ \E up \in StubWorld.uptimes :
         since_request = up /\ since_429 = up /\ since_adapt = up
    /\ run = 1
    /\ starts = [k \in KeySpace |-> 0]
    /\ at_start = [ledger |-> Len(ledger.rows), sink |-> 0]

NextLedger ==
    \/ Startup
    \/ Warmup
    \/ ChunkHead
    \/ KeyHead
    \/ Gate(StubWorld)
    \/ CoolOff(StubWorld)
    \/ Get(StubWorld)
    \/ SessionResend(StubWorld)
    \/ OnSuccess
    \/ On429(StubWorld)
    \/ OnFailure(StubWorld)
    \/ Normalize
    \/ SinkWrite
    \/ LogProgress
    \/ ChunkEnd

SpecLedger == InitLedger /\ [][NextLedger]_vars

\* ------------------------------------------------------------------------
\* Runs that follow one another on the same files, each started when the
\* one before is done: no SIGINT, no kill.  The first finds no ledger, or a
\* ledger with its header row and no entry yet, whose first three columns
\* are the key's fields in some order (so that the rows log_progress writes
\* have text in every column load_done_keys reads).
\* ------------------------------------------------------------------------
RerunLayouts ==
    {l \in NamedLayouts : \A i \in 1..Len(l) : l[i].field \in 1..3 <=> i <= 3}

InitRerun ==
    /\ InitLedger
    /\ ledger \in {NoFile} \cup {Render(l, <<>>) : l \in RerunLayouts}

NextRerun ==
    \/ NextLedger
    \/ Restart(StubWorld)

SpecRerun == InitRerun /\ [][NextRerun]_vars

\* ------------------------------------------------------------------------
\* The sink under kills: the keys of one county, each answered with a
\* payload of two DateGroups, a 429 or a 503, over processes that may be
\* killed at any point and started again.
\* ------------------------------------------------------------------------
\* RETRIES of this specification.
SinkRetries == 1

SinkWorld ==
    [stub |-> FALSE,
     responses |-> {Response(200, BodyRich, NoRetryAfter),
                    Response(429, EmptyText, NoRetryAfter),
                    Response(503, EmptyText, NoRetryAfter)},
     latencies |-> {0},
     both_ends |-> FALSE,
     uptimes |-> {AgeCap},
     retries |-> SinkRetries,
     sends_cap |-> 4 * SinkRetries + 1]

InitSink ==
    /\ InitIn(SinkWorld)
    /\ counties_csv = counties_file(<<RichmondCounty>>)
    /\ ledger = NoFile

NextSink ==
    \/ Startup
    \/ Warmup
    \/ ChunkHead
    \/ KeyHead
    \/ Gate(SinkWorld)
    \/ CoolOff(SinkWorld)
    \/ Get(SinkWorld)
    \/ SessionResend(SinkWorld)
    \/ OnSuccess
    \/ On429(SinkWorld)
    \/ OnFailure(SinkWorld)
    \/ Normalize
    \/ SinkWrite
    \/ LogProgress
    \/ ChunkEnd
    \/ Crash
    \/ Restart(SinkWorld)

SpecSink == InitSink /\ [][NextSink]_vars

\* ------------------------------------------------------------------------
\* One fetch_gdelt call on the program's own retry budget: the ledger has
\* the entry of one of the two keys of a county, the other key is fetched
\* from an upstream that may answer every request with a payload, a 429, a
\* 503, a 404, or not at all.
\* ------------------------------------------------------------------------
FetchWorld ==
    [stub |-> FALSE,
     responses |-> {Response(200, BodyOne, NoRetryAfter),
                    Response(429, EmptyText, NoRetryAfter),
                    Response(503, EmptyText, NoRetryAfter),
                    Response(404, EmptyText, NoRetryAfter),
                    NoResponse},
     latencies |-> {0},
     both_ends |-> FALSE,
     uptimes |-> {AgeCap},
     retries |-> RETRIES,
     sends_cap |-> 4 * RETRIES + 1]

InitFetch ==
    /\ counties_csv = counties_file(<<RichmondCounty>>)
    /\ ledger = log_progress(NoFile, "Virginia", "Richmond", "hurricane", 0, 0)
    /\ sink = <<>>
    /\ pc = "start"
    /\ blank
    /\ \E up \in FetchWorld.uptimes :
         since_request = up /\ since_429 = up /\ since_adapt = up
    /\ run = 1
    /\ starts = [k \in KeySpace |-> 0]
    /\ at_start = [ledger |-> Len(ledger.rows), sink |-> 0]

NextFetch ==
    \/ Startup
    \/ Warmup
    \/ ChunkHead
    \/ KeyHead
    \/ Gate(FetchWorld)
    \/ CoolOff(FetchWorld)
    \/ Get(FetchWorld)
    \/ SessionResend(FetchWorld)
    \/ OnSuccess
    \/ On429(FetchWorld)
    \/ OnFailure(FetchWorld)
    \/ Normalize
    \/ SinkWrite
    \/ LogProgress
    \/ ChunkEnd

SpecFetch == InitFetch /\ [][NextFetch]_vars

\* ------------------------------------------------------------------------
\* One fetch_gdelt call against an upstream that throttles with every kind
\* of Retry-After: none, a delay of 2 s, of 0 s, of -5 s, and a date 2 s
\* ahead.
\* ------------------------------------------------------------------------
\* RETRIES of this specification.
HintRetries == 2

HintWorld ==
    [stub |-> FALSE,
     responses |-> {Response(200, BodyOne, NoRetryAfter),
                    Response(429, EmptyText, NoRetryAfter),
                    Response(429, EmptyText, RetryAfter(2)),
                    Response(429, EmptyText, RetryAfter(0)),
                    Response(429, EmptyText, RetryAfter(0 - 5)),
                    Response(429, EmptyText, RetryAfterDate(2))},
     latencies |-> {0},
     both_ends |-> FALSE,
     uptimes |-> {AgeCap},
     retries |-> HintRetries,
     sends_cap |-> 0]

InitHint ==
    /\ counties_csv = counties_file(<<RichmondCounty>>)
    /\ ledger = log_progress(NoFile, "Virginia", "Richmond", "hurricane", 0, 0)
    /\ sink = <<>>
    /\ pc = "start"
    /\ blank
    /\ \E up \in HintWorld.uptimes :
         since_request = up /\ since_429 = up /\ since_adapt = up
    /\ run = 1
    /\ starts = [k \in KeySpace |-> 0]
    /\ at_start = [ledger |-> Len(ledger.rows), sink |-> 0]

NextHint ==
    \/ Startup
    \/ Warmup
    \/ ChunkHead
    \/ KeyHead
    \/ Gate(HintWorld)
    \/ CoolOff(HintWorld)
    \/ Get(HintWorld)
    \/ SessionResend(HintWorld)
    \/ OnSuccess
    \/ On429(HintWorld)
    \/ OnFailure(HintWorld)
    \/ Normalize
    \/ SinkWrite
    \/ LogProgress
    \/ ChunkEnd

SpecHint == InitHint /\ [][NextHint]_vars

\* ------------------------------------------------------------------------
\* One fetch_gdelt call against an upstream that answers 200 to every
\* request: with a payload, with a text without the marker, with the
\* marker in a text of 50 characters, or with no text at all.
\* ------------------------------------------------------------------------
OkWorld ==
    [stub |-> FALSE,
     responses |-> {Response(200, BodyOne, NoRetryAfter),
                    Response(200, BodyNoMarker, NoRetryAfter),
                    Response(200, BodyShort, NoRetryAfter),
                    Response(200, EmptyText, NoRetryAfter)},
     latencies |-> {0},
     both_ends |-> TRUE,
     uptimes |-> {AgeCap},
     retries |-> RETRIES,
     sends_cap |-> RETRIES + 1]

InitOk ==
    /\ counties_csv = counties_file(<<RichmondCounty>>)
    /\ ledger = log_progress(NoFile, "Virginia", "Richmond", "hurricane", 0, 0)
    /\ sink = <<>>
    /\ pc = "start"
    /\ blank
    /\ \E up \in OkWorld.uptimes :
         since_request = up /\ since_429 = up /\ since_adapt = up
    /\ run = 1
    /\ starts = [k \in KeySpace |-> 0]
    /\ at_start = [ledger |-> Len(ledger.rows), sink |-> 0]

NextOk ==
    \/ Startup
    \/ Warmup
    \/ ChunkHead
    \/ KeyHead
    \/ Gate(OkWorld)
    \/ CoolOff(OkWorld)
    \/ Get(OkWorld)
    \/ OnSuccess
    \/ OnFailure(OkWorld)
    \/ Normalize
    \/ SinkWrite
    \/ LogProgress
    \/ ChunkEnd

SpecOk == InitOk /\ [][NextOk]_vars

\* ------------------------------------------------------------------------
\* The start of a run with the monotonic clock at 0, over one county or
\* two, with one key of the first county logged already or both; no SIGINT,
\* no crash.
\* ------------------------------------------------------------------------
\* RETRIES of this specification.
WarmRetries == 2

WarmWorld ==
    [stub |-> FALSE,
     responses |-> {Response(200, BodyOne, NoRetryAfter),
                    Response(429, EmptyText, NoRetryAfter),
                    Response(503, EmptyText, NoRetryAfter),
                    NoResponse},
     latencies |-> {0},
     both_ends |-> FALSE,
     uptimes |-> {0},
     retries |-> WarmRetries,
     sends_cap |-> 0]

\* The ledger with the county's first key, and with both.
OneKeyLogged ==
    log_progress(NoFile, "Virginia", "Richmond", "hurricane", 0, 0)

BothKeysLogged ==
    log_progress(OneKeyLogged, "Virginia", "Richmond", "flood", 0, 0)

InitWarm ==
    /\ counties_csv \in {counties_file(<<RichmondCounty>>),
                         counties_file(<<BedfordCounty, RichmondCounty>>)}
    /\ ledger \in {OneKeyLogged, BothKeysLogged}
    /\ sink = <<>>
    /\ pc = "start"
    /\ blank
    /\ \E up \in WarmWorld.uptimes :
         since_request = up /\ since_429 = up /\ since_adapt = up
    /\ run = 1
    /\ starts = [k \in KeySpace |-> 0]
    /\ at_start = [ledger |-> Len(ledger.rows), sink |-> 0]

NextWarm ==
    \/ Startup
    \/ Warmup
    \/ ChunkHead
    \/ KeyHead
    \/ Gate(WarmWorld)
    \/ CoolOff(WarmWorld)
    \/ Get(WarmWorld)
    \/ SessionResend(WarmWorld)
    \/ OnSuccess
    \/ On429(WarmWorld)
    \/ OnFailure(WarmWorld)
    \/ Normalize
    \/ SinkWrite
    \/ LogProgress
    \/ ChunkEnd

SpecWarm == InitWarm /\ [][NextWarm]_vars

\* The same, the process going on while it has a step to take.
SpecWarmOn == SpecWarm /\ WF_vars(NextWarm)

\* ------------------------------------------------------------------------
\* Properties of the scheduler, its files and its restarts.
\* ------------------------------------------------------------------------
Count(seq, x) == Cardinality({i \in 1..Len(seq) : seq[i] = x})

KeyOfRow(row) == <<row[1], row[2], row[3]>>

\* The ledger holds an entry for key k among its first n rows.
HasLedgerRowIn(k, n) == \E j \in 1..n : KeyOfRow(ledger.rows[j]) = k

HasLedgerRow(k) == HasLedgerRowIn(k, Len(ledger.rows))

\* How often the entity list carries the pair of key k.
CountyRowsFor(k) ==
    Cardinality({i \in 1..Len(counties_csv.rows) :
                   /\ CellOf(counties_csv.rows[i], 1) = k[1]
                   /\ CellOf(counties_csv.rows[i], 3) = k[2]})

\* main() has just built its queue: no key was started, the ledger is as
\* load_done_keys read it.
QueueJustBuilt == pc = "warmup" \/ (pc = "chunk" /\ idx = 1)

\* The entries this process appended to the ledger (its header apart), and
\* the lines it appended to the sink.
LedgerThisRun ==
    SubSeq(ledger.rows,
           IF at_start.ledger = 0 THEN 2 ELSE at_start.ledger + 1,
           Len(ledger.rows))

SinkThisRun == SubSeq(sink, at_start.sink + 1, Len(sink))

\* C1: at startup the queue is all the keys (entities x DISASTERS) less the
\* keys of the ledger: a key with a ledger row is not in the queue, and a
\* key without one is in it as often as the keys carry it.
C1_PendingIsKeysMinusDone ==
    QueueJustBuilt =>
      \A k \in KeySpace :
        Count(pending, k) = IF HasLedgerRow(k) THEN 0 ELSE CountyRowsFor(k)

\* C1: a restarted process has built its queue over a ledger that holds
\* some keys and lacks others.
C1_Witness ==
    /\ run = 2
    /\ pc = "warmup"
    /\ \E k \in KeySpace : HasLedgerRow(k) /\ CountyRowsFor(k) > 0
    /\ pending # <<>>

\* The pairs of the entity list are distinct.
DistinctPairs == \A k \in KeySpace : CountyRowsFor(k) <= 1

\* C2 as stated, for an entity list of distinct pairs: over all the runs on
\* one ledger, fetch_gdelt is started at most once for each key.
C2_StartedAtMostOnce == DistinctPairs => \A k \in KeySpace : starts[k] <= 1

\* C2, amended: the key fetch_gdelt is started for has no entry in the
\* ledger this process loaded, and, the pairs of the entity list being
\* distinct, none in the ledger as it is now.
C2_StartedOnlyWithoutEntry ==
    in_flight =>
      /\ ~HasLedgerRowIn(cur_key, at_start.ledger)
      /\ DistinctPairs => ~HasLedgerRow(cur_key)

\* C2: a second process, over a ledger with entries, fetches a key the
\* killed one had started.
C2_Witness ==
    /\ run = 2
    /\ pc = "fetch"
    /\ at_start.ledger > 1
    /\ starts[cur_key] = 2
    /\ DistinctPairs

\* C3 as stated: no key occurs twice in the queue of a run.
C3_QueueKeysUnique ==
    \A i, j \in 1..Len(pending) : i # j => pending[i] # pending[j]

\* C4: the entries a process has appended to the ledger are the keys it
\* started, one each and in order, the key in flight apart: whatever
\* fetch_gdelt returned, the key's entry follows.
C4_OneEntryPerStartedKey ==
    pc # "crashed" =>
      /\ Len(LedgerThisRun) = Len(fetched) - (IF in_flight THEN 1 ELSE 0)
      /\ \A i \in 1..Len(LedgerThisRun) : KeyOfRow(LedgerThisRun[i]) = fetched[i]

\* C4: a key whose retry budget the 429s used up has its entry.
C4_Witness ==
    /\ pc = "key"
    /\ fetched # <<>>
    /\ resp.status = 429
    /\ returned[Len(returned)] = EmptyText
    /\ KeyOfRow(ledger.rows[Len(ledger.rows)]) = fetched[Len(fetched)]

GroupsOf(i) ==
    rows_from_csv_text(returned[i], fetched[i][1], fetched[i][2], fetched[i][3])

RECURSIVE ArticlesUpTo(_, _)
ArticlesUpTo(groups, n) ==
    IF n = 0 THEN 0
    ELSE ArticlesUpTo(groups, n - 1) + Len(groups[n].articles)

ArticlesIn(groups) == ArticlesUpTo(groups, Len(groups))

RECURSIVE GroupsUpTo(_)
GroupsUpTo(n) == IF n = 0 THEN <<>> ELSE GroupsUpTo(n - 1) \o GroupsOf(n)

\* C6: between keys, the lines this process appended to the sink are the
\* DateGroups of the keys it processed, one line each, key after key; every
\* key's entry records the number of its DateGroups and of their articles,
\* zero and zero with no line for an empty payload.
C6_SinkLinesAndCounts ==
    pc \in {"key", "chunk_end", "chunk", "done"} =>
      /\ Len(returned) = Len(fetched)
      /\ Len(LedgerThisRun) = Len(fetched)
      /\ SinkThisRun = GroupsUpTo(Len(fetched))
      /\ \A i \in 1..Len(fetched) :
           /\ LedgerThisRun[i][4] = Len(GroupsOf(i))
           /\ LedgerThisRun[i][5] = ArticlesIn(GroupsOf(i))
           /\ returned[i].len = 0 =>
                /\ GroupsOf(i) = <<>>
                /\ LedgerThisRun[i][4] = 0
                /\ LedgerThisRun[i][5] = 0

\* C6: a payload of four rows, one a repeated URL, has left two lines and an
\* entry of two DateGroups and three articles.
C6_Witness ==
    /\ pc = "key"
    /\ returned # <<>>
    /\ returned[Len(returned)] = BodyRich
    /\ Len(SinkThisRun) >= 2
    /\ ledger.rows[Len(ledger.rows)][4] = 2
    /\ ledger.rows[Len(ledger.rows)][5] = 3

\* C7 as stated: every request that leaves, a re-send of the session
\* included, has had its own rate_limit_sleep() and cool-off check.
C7_EveryRequestGated == send.any => send.gated

\* ------------------------------------------------------------------------
\* Properties of the pacing.
\* ------------------------------------------------------------------------
\* C8 as stated: a request of the fetch loop leaves no sooner after the
\* loop's request before it than the interval of its own rate_limit_sleep()
\* call, max(MIN_API_INTERVAL, 60/RATE_LIMIT_RPM) times the multiplier.
C8_LoopRequestsSpaced ==
    send.by_loop /\ send.second => send.gap >= send.interval

\* C9: rate_limit_sleep() returns no sooner after its return before than
\* the interval it computed, which is MIN_API_INTERVAL or more.
C9_GateSpacingAtLeastFloor ==
    gate.calls >= 2 =>
      /\ gate.gap >= gate.interval
      /\ gate.interval >= MIN_API_INTERVAL
      /\ gate.gap >= MIN_API_INTERVAL

\* C9: a call with the multiplier at ADAPTIVE_MAX_FACTOR that slept to fill
\* its interval.
C9_Witness ==
    /\ gate.calls >= 2
    /\ fpc = "cooloff"
    /\ _adaptive_factor = MaxFactor
    /\ gate.interval = interval_of(MaxFactor)
    /\ gate.gap < gate.interval + TicksPerSec

\* C10 as stated: the interval of the rate_limit_sleep() call that follows
\* a bump of the multiplier is larger than the interval of the call before
\* the bump.
C10_SpacingGrowsAfterBump ==
    gate.after_bump => gate.interval > gate.prev_interval

\* C10, amended: it is larger when the multiplier was below
\* ADAPTIVE_MAX_FACTOR before the bump and the call that follows does not
\* decay it; in every case it is MIN_API_INTERVAL or more.
C10_SpacingGrowsBelowCap ==
    gate.after_bump =>
      /\ gate.interval >= MIN_API_INTERVAL
      /\ ~gate.decayed /\ gate.prev_interval < interval_of(MaxFactor) =>
           gate.interval > gate.prev_interval

\* C10: the call after the first bump of a process, no decay between.
C10_Witness ==
    /\ gate.after_bump
    /\ ~gate.decayed
    /\ gate.prev_interval = interval_of(One)
    /\ gate.interval = interval_of(bump_adaptive(One))
    /\ gate.interval > gate.prev_interval

\* ------------------------------------------------------------------------
\* Properties of the throttling state.
\* ------------------------------------------------------------------------
\* C11: when the fetch loop is about to issue a request, GLOBAL_429_COOLDOWN
\* or more has passed since _last_429_ts, the last 429 the loop recorded,
\* whichever key or attempt received it.
C11_RequestAfterCooldown ==
    pc = "fetch" /\ fpc = "get" => since_429 >= GLOBAL_429_COOLDOWN

\* C11: the first request of a key leaves right after a cool-off sleep for a
\* 429 that an earlier key received.
C11_Witness ==
    /\ pc = "fetch" /\ fpc = "get"
    /\ attempt = 1
    /\ Len(fetched) = 2
    /\ since_429 < GLOBAL_429_COOLDOWN + TicksPerSec

\* fetch_gdelt handles the response (or the exception) of an attempt.
OutcomeStep == pc = "fetch" /\ fpc = "session" /\ fpc' \in {"gate", "return"}

\* C12: handling a 429 stamps _last_429_ts and _last_adapt_ts with the time
\* of the handling (their age afterwards is the time slept since) and
\* multiplies _adaptive_factor by 1.25, up to ADAPTIVE_MAX_FACTOR; no other
\* step of the process stamps _last_429_ts anew or raises _adaptive_factor.
C12_ThrottleFrame ==
    [][LET f == _adaptive_factor
           g == _adaptive_factor'
       IN  IF OutcomeStep /\ resp.status = 429
           THEN /\ IF 5 * f.n >= 4 * ADAPTIVE_MAX_FACTOR * f.d
                   THEN g.n = ADAPTIVE_MAX_FACTOR * g.d
                   ELSE 4 * f.d * g.n = 5 * f.n * g.d
                /\ since_429' = since_adapt'
                /\ since_send' < AgeCap => since_429' = since_send' - since_send
           ELSE /\ g.n * f.d <= f.n * g.d
                /\ since_429' >= since_429]_vars

\* C12: a 429 has just been handled and left the multiplier at
\* ADAPTIVE_MAX_FACTOR.
C12_Witness ==
    /\ pc = "fetch" /\ fpc = "gate"
    /\ resp.status = 429
    /\ gate.bumped
    /\ _adaptive_factor = MaxFactor
    /\ since_429 = since_adapt
    /\ since_429 < GLOBAL_429_COOLDOWN

\* C13 as stated: in a fetch_gdelt call, the third of three 429s in a row
\* is followed, after its own backoff sleep, by one extended cool-down of
\* 300 s or more, which leaves streak_429 at zero; the first and the second
\* of three in a row are followed by none.
C13_ThirdThrottleInARowCools ==
    /\ throttles.run = 3 =>
         /\ throttles.cooled
         /\ throttles.cool >= 300 * TicksPerSec
         /\ streak_429 = 0
    /\ throttles.run \in {1, 2} => ~throttles.cooled

\* ------------------------------------------------------------------------
\* Properties of the normalizer: csv_text is the payload, entries what
\* rows_from_csv_text made of it.
\* ------------------------------------------------------------------------
Normalized == pc \in {"sink", "log", "key"}

\* Two URL cells name one document: they are equal once stripped.
SameUrl(u, v) == u.scheme = v.scheme /\ u.host = v.host /\ u.path = v.path

\* The places of the output: <<group, article>>.
Places(groups) ==
    {p \in (1..Len(groups)) \X (1..Len(csv_text.rows)) :
       p[2] <= Len(groups[p[1]].articles)}

ArticleAt(groups, p) == groups[p[1]].articles[p[2]]

\* The first row of the payload that carries URL u.
FirstRowOf(u) ==
    CHOOSE i \in 1..Len(csv_text.rows) :
      /\ SameUrl(csv_text.rows[i].DocumentIdentifier, u)
      /\ \A j \in 1..(i - 1) : ~SameUrl(csv_text.rows[j].DocumentIdentifier, u)

\* C14: no URL is at two places of the output, and the record at a place is
\* made of the first row that carries its URL: that row's title, and its
\* source (the host of the URL when the source cell is empty).
C14_UrlOnceFirstRowWins ==
    Normalized =>
      /\ \A p, q \in Places(entries) :
           SameUrl(ArticleAt(entries, p).url, ArticleAt(entries, q).url) => p = q
      /\ \A p \in Places(entries) :
           LET art == ArticleAt(entries, p)
               row == csv_text.rows[FirstRowOf(art.url)]
           IN  /\ \E i \in 1..Len(csv_text.rows) :
                    SameUrl(csv_text.rows[i].DocumentIdentifier, art.url)
               /\ art.title = row.Title
               /\ art.source = IF row.SourceCommonName # ""
                               THEN row.SourceCommonName ELSE art.url.host

\* C14: a payload whose second row repeats the URL of the first under
\* another title has been normalized to one record, with the first title.
C14_Witness ==
    /\ Normalized
    /\ Len(csv_text.rows) = 2
    /\ SameUrl(csv_text.rows[1].DocumentIdentifier,
               csv_text.rows[2].DocumentIdentifier)
    /\ csv_text.rows[1].Title # csv_text.rows[2].Title
    /\ Len(entries) = 1
    /\ Len(entries[1].articles) = 1
    /\ entries[1].articles[1].title = csv_text.rows[1].Title

\* The day of a normalized date YYYY-MM-DD as the number YYYYMMDD.
DigitValue(c) == (CHOOSE i \in 1..10 : Digits[i] = c) - 1

RECURSIVE DayNumberFrom(_, _)
DayNumberFrom(date, n) ==
    IF date = <<>> THEN n
    ELSE IF Head(date) = "-" THEN DayNumberFrom(Tail(date), n)
    ELSE DayNumberFrom(Tail(date), 10 * n + DigitValue(Head(date)))

DayNumber(date) == DayNumberFrom(date, 0)

\* The rows that survive: a URL, carried by no row before, and a date that
\* normalizes.
SurvivingRows ==
    {i \in 1..Len(csv_text.rows) :
       /\ ~SameUrl(csv_text.rows[i].DocumentIdentifier, EmptyUrl)
       /\ FirstRowOf(csv_text.rows[i].DocumentIdentifier) = i
       /\ normalize_date(csv_text.rows[i].Date) # <<>>}

\* C15: the dates of the DateGroups of one call decrease strictly from one
\* group to the next (so they are pairwise distinct), they are the
\* normalized dates of the surviving rows, and no group is empty.
C15_GroupsDistinctDescending ==
    Normalized =>
      /\ \A i \in 1..(Len(entries) - 1) :
           DayNumber(entries[i].date) > DayNumber(entries[i + 1].date)
      /\ {entries[i].date : i \in 1..Len(entries)}
           = {normalize_date(csv_text.rows[i].Date) : i \in SurvivingRows}
      /\ \A i \in 1..Len(entries) : entries[i].articles # <<>>

\* C15: the payload of the dates 20230101000000 and 20230102000000, in
\* that order, has given two groups, 2023-01-02 first.
C15_Witness ==
    /\ Normalized
    /\ Len(csv_text.rows) = 2
    /\ csv_text.rows[1].Date = Jan01
    /\ csv_text.rows[2].Date = Jan02
    /\ Len(entries) = 2
    /\ entries[1].date = <<"2", "0", "2", "3", "-", "0", "1", "-", "0", "2">>
    /\ entries[2].date = <<"2", "0", "2", "3", "-", "0", "1", "-", "0", "1">>

\* ------------------------------------------------------------------------
\* Properties of the two files.
\* ------------------------------------------------------------------------
\* The ledger is empty, or its first row is the header and every other row
\* an entry: a key and two counts, and not a header.
LedgerWellFormed ==
    \/ ledger.rows = <<>>
    \/ /\ ledger.exists
       /\ Head(ledger.rows) = LedgerHeader
       /\ \A j \in 2..Len(ledger.rows) :
            /\ ledger.rows[j] # LedgerHeader
            /\ Len(ledger.rows[j]) = Len(LedgerHeader)
            /\ KeyOfRow(ledger.rows[j]) \in KeySpace
            /\ ledger.rows[j][4] \in Nat
            /\ ledger.rows[j][5] \in Nat

\* A step leaves the rows of the ledger as they are, or adds at their end
\* the entry of the key in flight, after the header when there was no row.
LedgerAppendOnly ==
    /\ SubSeq(ledger'.rows, 1, Len(ledger.rows)) = ledger.rows
    /\ ledger' # ledger =>
         /\ Len(ledger'.rows) = Len(ledger.rows)
                                + (IF ledger.rows = <<>> THEN 2 ELSE 1)
         /\ KeyOfRow(ledger'.rows[Len(ledger'.rows)]) = cur_key

\* C16: from a missing or empty file on, over one run or several, the
\* ledger has one header, its first row, every other row is one entry, in
\* the order of the appends, and a row once written is never changed nor
\* removed.
C16_LedgerAppendOnly == []LedgerWellFormed /\ [][LedgerAppendOnly]_vars

\* C16: a second process has appended to the rows a first one left.
C16_Witness ==
    /\ run = 2
    /\ at_start.ledger >= 2
    /\ Len(ledger.rows) > at_start.ledger
    /\ LedgerWellFormed

\* The key loop has just logged a key: the one before its position.
JustLogged == pc = "key" /\ kpos > 1

LoggedKey == chunks_iter[idx][kpos - 1]

\* The keys of the entries es that have no blank cell, trimmed.
KeysOfEntries(es) ==
    {<<Strip(es[j][1]), Strip(es[j][2]), Strip(es[j][3])>> :
       j \in {i \in 1..Len(es) :
                Strip(es[i][1]) # "" /\ Strip(es[i][2]) # ""
                /\ Strip(es[i][3]) # ""}}

\* What load_done_keys returned at startup: nothing for a missing or empty
\* ledger, and for the entries es under any layout with one column to each
\* of the three names, the keys of es.
DoneKeysByName ==
    QueueJustBuilt =>
      /\ ledger \in {NoFile, EmptyFile} => done = {}
      /\ \A l \in NamedLayouts, es \in EntryLists :
           ledger = Render(l, es) =>
             /\ done = KeysOfEntries(es)
             /\ done = load_done_keys(Render(CanonLayout, es))

\* Under a layout with a second column that answers to state, the state of
\* every key is read from the last such column.
DoneKeysUnderShadow ==
    QueueJustBuilt =>
      \A es \in EntryLists :
        ledger = Render(ShadowLayout, es) =>
          done = {<<"x", k[2], k[3]>> : k \in KeysOfEntries(es)}

\* C17: a key that log_progress has just appended is in the set that
\* load_done_keys returns for the ledger.
C17_LoggedKeyIsDone == JustLogged => LoggedKey \in load_done_keys(ledger)

\* The key of a line of the sink.
KeyOfLine(rec) == <<rec.state, rec.county, rec.disaster>>

\* The batches of key k: the DateGroups of a payload the upstream may give.
FullBatches(k) ==
    {rows_from_csv_text(b, k[1], k[2], k[3]) : b \in {BodyRich, BodyOne}}

\* C18 as stated: where a line of one key is followed by a line of another
\* key, a whole batch of the first key ends: the sink never holds a part of
\* the DateGroups of one key followed by records of another.
C18_BatchesWhole ==
    \A i \in 1..(Len(sink) - 1) :
      KeyOfLine(sink[i]) # KeyOfLine(sink[i + 1]) =>
        \E b \in FullBatches(KeyOfLine(sink[i])) :
          /\ i >= Len(b)
          /\ SubSeq(sink, i - Len(b) + 1, i) = b

\* The sink holds batch b whole, line after line.
SinkHolds(b) ==
    \E i \in 0..(Len(sink) - Len(b)) : SubSeq(sink, i + 1, i + Len(b)) = b

\* C19: at every point, a killed process included, the sink holds for every
\* entry of the ledger a whole batch of the entry's key, of as many
\* DateGroups and articles as the entry counts: the records of a key are in
\* the sink before its entry is written.
C19_LoggedKeysAreInSink ==
    \A j \in 2..Len(ledger.rows) :
      \E b \in FullBatches(KeyOfRow(ledger.rows[j])) \cup {<<>>} :
        /\ Len(b) = ledger.rows[j][4]
        /\ ArticlesIn(b) = ledger.rows[j][5]
        /\ SinkHolds(b)

\* C19: a process was killed inside the batch of its second key: the first
\* key has its entry and its two DateGroups, the second a part and no entry.
C19_Witness ==
    /\ pc = "crashed"
    /\ Len(ledger.rows) = 2
    /\ ledger.rows[2][4] = 2
    /\ Len(sink) = 3
    /\ KeyOfLine(sink[3]) # KeyOfRow(ledger.rows[2])

\* The entity file has a column for one of the names.
HasColumnFor(names) ==
    \E i \in 1..Len(counties_csv.header) :
      StripLower(counties_csv.header[i]) \in names

\* The entity file is missing, or has no state column or no county column
\* under any of the accepted names.
EntityFileUnusable ==
    \/ ~counties_csv.exists
    \/ ~HasColumnFor({"state_name", "state"})
    \/ ~HasColumnFor({"county_name_clean", "countyclean", "county"})

\* C20: with such an entity file a process gets no further than its start,
\* where it aborts (or is killed): it has slept no time, called the limiter
\* never, sent no request, started no key, and both files are as they
\* were, the sink without a line and the ledger missing.
C20_FatalStartupAbortsFirst ==
    EntityFileUnusable =>
      /\ pc \in {"start", "aborted", "crashed"}
      /\ since_send = 0
      /\ gate.calls = 0
      /\ ~send.any
      /\ fetched = <<>>
      /\ pending = <<>>
      /\ sink = <<>>
      /\ ledger = NoFile

\* C20: a process has aborted on an entity file that exists and has a state
\* column but no county column.
C20_Witness ==
    /\ pc = "aborted"
    /\ counties_csv.exists
    /\ HasColumnFor({"state_name", "state"})
    /\ ~HasColumnFor({"county_name_clean", "countyclean", "county"})

\* ------------------------------------------------------------------------
\* Properties of the multiplier and of the retry loop.
\* ------------------------------------------------------------------------
\* C21: the multiplier is 1 or more and ADAPTIVE_MAX_FACTOR or less,
\* whatever bumps and decays came before.
C21_FactorWithinBounds ==
    /\ ~FracLess(_adaptive_factor, One)
    /\ ~FracLess(MaxFactor, _adaptive_factor)

\* C21: a decay has just lowered a multiplier that bumps had raised, and
\* left it above 1.
C21_Witness ==
    /\ pc = "fetch" /\ fpc = "cooloff"
    /\ gate.decayed
    /\ FracLess(One, _adaptive_factor)
    /\ FracLess(_adaptive_factor, MaxFactor)

\* A decay has just brought the multiplier back to 1.
DecayedToOne ==
    pc = "fetch" /\ fpc = "cooloff" /\ gate.decayed /\ _adaptive_factor = One

\* rate_limit_sleep() is called and returns.
GateStep == pc = "fetch" /\ fpc = "gate" /\ fpc' = "cooloff"

\* C22: a step lowers the multiplier only if it is a call of
\* rate_limit_sleep() that finds the multiplier above 1 and more than
\* ADAPTIVE_DECAY_SEC gone since the last adjustment; such a call takes one
\* step of x0.8, not below 1, and stamps _last_adapt_ts (its age after the
\* call is the time the call slept); no other step but a bump stamps it.
\* So a decay comes more than a window after the decay or bump before it.
C22_DecayOnlyAfterWindow ==
    [][LET f == _adaptive_factor
           g == _adaptive_factor'
           due == FracLess(One, f) /\ since_adapt > ADAPTIVE_DECAY_SEC
       IN  /\ FracLess(g, f) => GateStep /\ due
           /\ GateStep /\ due =>
                /\ IF 4 * f.n <= 5 * f.d THEN g = One
                   ELSE 5 * f.d * g.n = 4 * f.n * g.d
                /\ since_send' < AgeCap =>
                     since_adapt' = since_send' - since_send
           /\ GateStep /\ ~due => g = f
           /\ since_adapt' < since_adapt =>
                \/ GateStep /\ due
                \/ OutcomeStep /\ resp.status = 429]_vars

\* C22: the call that follows a bump has decayed the multiplier: the sleep
\* after the 429 was longer than the window.
C22_Witness ==
    /\ pc = "fetch" /\ fpc = "cooloff"
    /\ gate.decayed
    /\ gate.after_bump
    /\ since_adapt < MIN_API_INTERVAL * ADAPTIVE_MAX_FACTOR + TicksPerSec

FetchRank ==
    IF fpc \in {"return", "idle"} THEN 0
    ELSE 8 * (RETRIES - attempt)
         + (CASE fpc = "gate" -> 7
              [] fpc = "cooloff" -> 6
              [] fpc = "get" -> 5
              [] fpc = "session" -> 1 + sess_total)

\* Within a call: attempt counts from 1 to RETRIES, and the requests sent
\* are at most four to an attempt, the session re-sending up to three times.
FetchWithinBudget ==
    pc = "fetch" =>
      /\ attempt \in 1..RETRIES
      /\ sess_total \in 0..3
      /\ sends <= 4 * attempt
      /\ fpc \in {"gate", "cooloff", "get"} => sends <= 4 * (attempt - 1)
      /\ fpc = "session" => sends <= 4 * (attempt - 1) + (4 - sess_total)

\* Every step of a call brings it nearer its return; a success returns the
\* payload at once and sends nothing more; a failure is followed by the
\* next attempt, or after the last of RETRIES by the return of the empty
\* payload.
FetchStep ==
    /\ pc = "fetch" /\ fpc # "return" => FetchRank' < FetchRank
    /\ OutcomeStep =>
         /\ sends' = sends
         /\ IF is_success(resp)
            THEN fpc' = "return" /\ csv_text' = resp.body
            ELSE IF attempt < RETRIES
            THEN fpc' = "gate" /\ attempt' = attempt + 1
            ELSE fpc' = "return" /\ csv_text' = EmptyText

C24_CooldownOnlyAfterThreeInARow == throttles.cooled => throttles.run = 3

RECURSIVE TwoTo(_)
TwoTo(k) == IF k = 0 THEN 1 ELSE 2 * TwoTo(k - 1)

\* The backoff after k failed attempts.
BackoffAfter(k) == Min(SLEEP_BASE * TwoTo(k), BACKOFF_MAX)

\* The attempts of the call under way that have failed.
FailedAttempts ==
    IF fpc = "return" /\ csv_text = EmptyText THEN attempt ELSE attempt - 1

\* C25: in a fetch_gdelt call the backoff is min(SLEEP_BASE x 2^k,
\* BACKOFF_MAX) after k failed attempts, whatever made them fail: SLEEP_BASE
\* when the call of a key starts, never more than BACKOFF_MAX.
C25_BackoffDoublesToCeiling ==
    pc = "fetch" =>
      /\ backoff = BackoffAfter(FailedAttempts)
      /\ backoff <= BACKOFF_MAX
      /\ fpc = "gate" /\ attempt = 1 => backoff = SLEEP_BASE

\* C25: the call of the second key starts at SLEEP_BASE after the call of
\* the first key has failed RETRIES times and ended at the ceiling.
C25_Witness ==
    /\ pc = "fetch" /\ fpc = "gate" /\ attempt = 1
    /\ Len(fetched) = 2
    /\ returned[1] = EmptyText
    /\ BackoffAfter(RETRIES) = BACKOFF_MAX
    /\ backoff = SLEEP_BASE

\* A call is at the ceiling before its last attempt, after 429s, 503s or
\* both.
BackoffAtCeiling ==
    pc = "fetch" /\ fpc = "gate" /\ attempt = RETRIES /\ backoff = BACKOFF_MAX

\* The backoff-or-hint sleep of the handling of a 429, read off the age of
\* _last_429_ts after it, the extended cool-down apart.
SleptOn429 == since_429' - throttles'.cool

BackoffPlusJitter == backoff..(backoff + 30)

\* The handling of a 429 doubles the backoff and uses up the attempt.
CountsAsFailure ==
    /\ backoff' = Min(2 * backoff, BACKOFF_MAX)
    /\ IF attempt < HintRetries
       THEN fpc' = "gate" /\ attempt' = attempt + 1
       ELSE fpc' = "return" /\ csv_text' = EmptyText

NegativeHintHandled ==
    /\ pc = "fetch" /\ fpc = "gate" /\ attempt = 2
    /\ resp = Response(429, EmptyText, RetryAfter(0 - 5))
    /\ since_429 = SLEEP_BASE

\* ------------------------------------------------------------------------
\* Properties of the run as a whole.
\* ------------------------------------------------------------------------
\* The chunks a process has left behind it.
ChunksFinished ==
    CASE pc \in {"start", "warmup", "aborted", "crashed"} -> 0
      [] pc = "done" -> Len(chunks_iter)
      [] OTHER -> idx - 1

\* Without a SIGINT a process has cooled down once after every chunk it
\* finished, the last of the queue apart: n - 1 times when it is done with
\* n chunks.
CooldownsCounted ==
    ~sigint.seen /\ pc # "crashed" =>
      cooldowns = Max(0, Min(ChunksFinished, Len(chunks_iter) - 1))

\* The step at the end of a chunk cools down (CHUNK_COOLDOWN_SEC pass, no
\* key is started) exactly when the chunk is not the last and _running is
\* on; no other step cools down.
CooldownStep ==
    /\ cooldowns' > cooldowns =>
         /\ cooldowns' = cooldowns + 1
         /\ pc = "chunk_end" /\ idx < Len(chunks_iter) /\ _running
         /\ since_request' = Aged(since_request, CHUNK_COOLDOWN_SEC)
         /\ fetched' = fetched /\ starts' = starts
         /\ ledger' = ledger /\ sink' = sink
    /\ pc = "chunk_end" /\ pc' = "chunk" =>
         cooldowns' = cooldowns
                      + (IF idx < Len(chunks_iter) /\ _running THEN 1 ELSE 0)

\* C27: one cool-down after each chunk that is not the last and ended with
\* _running on, none after the last chunk or after a SIGINT, n - 1 in a run
\* of n chunks without SIGINT, and no key started in a cool-down.
C27_CooldownBetweenChunks ==
    /\ []CooldownsCounted
    /\ [](sigint.seen => cooldowns = sigint.cooldowns)
    /\ [][CooldownStep]_vars

\* C27: a process without SIGINT is done with two chunks and one cool-down.
C27_Witness ==
    /\ pc = "done"
    /\ ~sigint.seen
    /\ Len(chunks_iter) = 2
    /\ cooldowns = 1

\* Nothing has called rate_limit_sleep(), sent a request or entered
\* fetch_gdelt.
NothingAsked == gate.calls = 0 /\ ~send.any /\ fetched = <<>>

\* No time has passed since the process started.
NoTimePassed == since_request \in WarmWorld.uptimes

\* The warm-up step sleeps STARTUP_WARMUP_SEC, and the first
\* rate_limit_sleep() call of a run finds the monotonic clock at
\* STARTUP_WARMUP_SEC or later.
WarmupStep ==
    /\ pc = "warmup" /\ pc' # "warmup" =>
         since_request' = Aged(since_request, STARTUP_WARMUP_SEC)
    /\ GateStep /\ gate.calls = 0 => since_request >= STARTUP_WARMUP_SEC
    /\ pc = "start" /\ pc' = "chunk" => pending' = <<>>
    /\ pc = "chunk" /\ pending = <<>> /\ pc' # pc => pc' = "done"

\* C28: nothing is asked of the upstream before the warm-up sleep is over,
\* the first rate_limit_sleep() call comes STARTUP_WARMUP_SEC or more after
\* the start, and a run with nothing pending ends without a warm-up and
\* without a request.
C28_NoRequestBeforeWarmup ==
    /\ [](pc \in {"start", "warmup"} => NothingAsked)
    /\ [](pc \in {"chunk", "done"} /\ pending = <<>> =>
            NothingAsked /\ NoTimePassed)
    /\ [](pc \notin {"start", "aborted", "chunk", "done"} => pending # <<>>)
    /\ [][WarmupStep]_vars

\* C28: the first rate_limit_sleep() call of a run that started with the
\* monotonic clock at 0 has returned.
C28_Witness ==
    /\ pc = "fetch" /\ fpc = "cooloff"
    /\ gate.calls = 1
    /\ gate.gap >= STARTUP_WARMUP_SEC
    /\ ~send.any

\* A run with nothing pending is done.
NothingPendingDone == pc = "done" /\ pending = <<>> /\ NoTimePassed

\* Every key of the queue has its entry among those this process appended.
AllPendingLogged ==
    /\ Len(LedgerThisRun) = Len(pending)
    /\ \A i \in 1..Len(pending) :
         \E j \in 1..Len(LedgerThisRun) : KeyOfRow(LedgerThisRun[j]) = pending[i]

\* C29: the process going on while it has a step to take, the run reaches
\* done; a process that is done has logged every key of its queue, and
\* takes no step: it sends nothing and writes nothing.
C29_RunReachesDone ==
    /\ <>(pc = "done")
    /\ [](pc = "done" => AllPendingLogged)
    /\ [][pc # "done"]_vars

\* C29: a run of two chunks is done; one of its calls returned nothing
\* after failing, one a payload.
C29_Witness ==
    /\ pc = "done"
    /\ Len(chunks_iter) = 2
    /\ \E i, j \in 1..Len(returned) :
         returned[i] = EmptyText /\ returned[j] # EmptyText

\* The chunks are the queue cut into consecutive slices of CHUNK_SIZE keys,
\* the last one of what is left: none is empty.
ChunksAreSlices ==
    /\ Len(chunks_iter) = (Len(pending) + CHUNK_SIZE - 1) \div CHUNK_SIZE
    /\ \A c \in 1..Len(chunks_iter) :
         /\ Len(chunks_iter[c]) =
              IF c < Len(chunks_iter) THEN CHUNK_SIZE
              ELSE Len(pending) - (c - 1) * CHUNK_SIZE
         /\ Len(chunks_iter[c]) >= 1
         /\ \A k \in 1..Len(chunks_iter[c]) :
              chunks_iter[c][k] = pending[(c - 1) * CHUNK_SIZE + k]

\* The keys started and the entries appended by this process follow the
\* queue, and at most the last key started has no entry yet.
InQueueOrder ==
    pc # "crashed" =>
      /\ Len(fetched) <= Len(pending)
      /\ \A i \in 1..Len(fetched) : fetched[i] = pending[i]
      /\ \A i \in 1..Len(LedgerThisRun) : KeyOfRow(LedgerThisRun[i]) = pending[i]
      /\ Len(fetched) - Len(LedgerThisRun) \in {0, 1}
      /\ in_flight => cur_key = pending[Len(fetched)]

\* fetch_gdelt is entered for the next key of the queue, when every key
\* before it has its entry.
KeyStartStep ==
    pc = "key" /\ pc' = "fetch" =>
      /\ Len(LedgerThisRun) = Len(fetched)
      /\ fetched' = Append(fetched, pending[Len(fetched) + 1])
      /\ ledger' = ledger

\* C30: the keys are taken one at a time in the order of the shuffled
\* queue, the entries of a run follow that order, the chunks are consecutive
\* slices of CHUNK_SIZE keys (the last shorter, none empty), and no
\* fetch_gdelt call starts before the entry of the key before.
C30_OneKeyAtATimeInQueueOrder ==
    /\ []ChunksAreSlices
    /\ []InQueueOrder
    /\ [][KeyStartStep]_vars

\* C30: a run over a queue of two chunks, shuffled so that a key of the
\* second county came first, is done with all its entries.
C30_Witness ==
    /\ pc = "done"
    /\ ~sigint.seen
    /\ Len(chunks_iter) = 2
    /\ Len(LedgerThisRun) = Len(pending)
    /\ pending[1][2] = "Richmond"
    /\ \E i \in 2..Len(pending) : pending[i][2] = "Bedford"

\* ------------------------------------------------------------------------
\* Properties of the normalizer on dates.
\* ------------------------------------------------------------------------
\* The number written by the characters i..j of a normalized date.
NumberAt(date, i, j) == DayNumber(SubSeq(date, i, j))

IsLeap(y) == y % 4 = 0 /\ (y % 100 # 0 \/ y % 400 = 0)

DaysIn(y, m) ==
    CASE m \in {1, 3, 5, 7, 8, 10, 12} -> 31
      [] m \in {4, 6, 9, 11} -> 30
      [] m = 2 -> IF IsLeap(y) THEN 29 ELSE 28
      [] OTHER -> 0

\* YYYY-MM-DD names a day of the calendar.
IsCalendarDay(date) ==
    /\ Len(date) = 10
    /\ date[5] = "-" /\ date[8] = "-"
    /\ \A i \in {1, 2, 3, 4, 6, 7, 9, 10} : IsDigit(date[i])
    /\ NumberAt(date, 1, 4) >= 1
    /\ NumberAt(date, 6, 7) \in 1..12
    /\ NumberAt(date, 9, 10) \in 1..DaysIn(NumberAt(date, 1, 4), NumberAt(date, 6, 7))

\* C31 as stated: the date of every DateGroup is a day of the calendar.
C31_GroupDatesAreCalendarDays ==
    Normalized => \A i \in 1..Len(entries) : IsCalendarDay(entries[i].date)

\* ------------------------------------------------------------------------
\* Properties of a call that is answered 200 every time.
\* ------------------------------------------------------------------------
\* A 200 without the marker, or of at most 100 characters.
MalformedOrEmpty(r) == r.status = 200 /\ (~r.body.marker \/ r.body.len <= 100)

\* The handling of such an answer: the backoff sleep, then the next attempt,
\* or after the last of RETRIES the return of the empty payload; nothing is
\* returned as a payload and nothing is written.
MalformedStep ==
    OutcomeStep /\ MalformedOrEmpty(resp) =>
      /\ since_send' - since_send >= backoff
      /\ since_send' - since_send <= backoff + TicksPerSec \div 2
      /\ IF attempt < RETRIES
         THEN fpc' = "gate" /\ attempt' = attempt + 1 /\ returned' = returned
         ELSE fpc' = "return" /\ csv_text' = EmptyText
              /\ returned' = Append(returned, EmptyText)
      /\ sink' = sink /\ ledger' = ledger

\* What a call returns: a payload that has the marker and more than 100
\* characters, or, RETRIES requests having been answered, the empty one.
ReturnedIsSound ==
    pc = "fetch" /\ fpc = "return" =>
      IF csv_text = EmptyText
      THEN attempt = RETRIES /\ sends = RETRIES /\ MalformedOrEmpty(resp)
      ELSE csv_text = resp.body /\ ~MalformedOrEmpty(resp)

\* The key whose call returned the empty payload has the entry 0, 0 and no
\* line in the sink.
EmptyIsLoggedAsZero ==
    JustLogged /\ returned[Len(returned)] = EmptyText =>
      /\ KeyOfRow(ledger.rows[Len(ledger.rows)]) = LoggedKey
      /\ ledger.rows[Len(ledger.rows)][4] = 0
      /\ ledger.rows[Len(ledger.rows)][5] = 0
      /\ Len(ledger.rows) = at_start.ledger + 1
      /\ SinkThisRun = <<>>

\* C32: a 200 without the marker or of at most 100 characters is never
\* returned as a payload; a call answered so every time makes RETRIES
\* attempts, sleeps the backoff after each, returns the empty payload, and
\* its key is logged with 0 and 0 and leaves no line in the sink.
C32_MalformedIsRetriedThenLoggedEmpty ==
    /\ []ReturnedIsSound
    /\ []EmptyIsLoggedAsZero
    /\ [][MalformedStep]_vars

\* C32: the key of a call that was answered eight times by a 200 without
\* the marker, the last time at the backoff's ceiling, has been logged.
C32_Witness ==
    /\ JustLogged
    /\ returned[Len(returned)] = EmptyText
    /\ sends = RETRIES
    /\ resp.body = BodyNoMarker
    /\ backoff = BACKOFF_MAX
    /\ ledger.rows[Len(ledger.rows)][4] = 0
    /\ sink = <<>>

\* ------------------------------------------------------------------------
\* Properties of a run that follows a finished one.
\* ------------------------------------------------------------------------
\* C33 as stated: a run that follows a run which reached done, on the same
\* entity list and ledger, has an empty queue, sends no request and leaves
\* the ledger and the sink as it found them.  (Where no run is interrupted,
\* every run after the first follows one that reached done.)
C33_RerunDoesNothing ==
    run > 1 /\ pc # "start" =>
      /\ pending = <<>>
      /\ ~send.any
      /\ fetched = <<>>
      /\ Len(ledger.rows) = at_start.ledger
      /\ Len(sink) = at_start.sink

\* ------------------------------------------------------------------------
\* The cool-off check of a process that has handled no 429.
\* ------------------------------------------------------------------------
\* fetch_gdelt passes its cool-off check.
CoolOffStep == pc = "fetch" /\ fpc = "cooloff" /\ fpc' = "get"

\* C34: in a process that started with the monotonic clock at 0 and has
\* handled no 429 yet, every cool-off check, the one before the first
\* request of the run included, finds _last_429_ts (still 0.0)
\* GLOBAL_429_COOLDOWN or more in the past, and passes without sleeping.
C34_NoCooloffBeforeAny429 ==
    /\ [](pc = "fetch" /\ fpc = "cooloff" /\ ~gate.throttled =>
            since_429 >= GLOBAL_429_COOLDOWN)
    /\ [][CoolOffStep /\ ~gate.throttled => UNCHANGED clocks]_vars

\* C34: the first request of the run's second key is about to leave, right
\* after the rate limiter returned, in a process that has handled no 429.
C34_Witness ==
    /\ pc = "fetch" /\ fpc = "get"
    /\ attempt = 1
    /\ Len(fetched) = 2
    /\ ~gate.throttled
    /\ since_request = 0

\* ------------------------------------------------------------------------
\* The URLs of the normalizer's result.
\* ------------------------------------------------------------------------
\* The rows of the payload that carry a URL.
UrlRows ==
    {i \in 1..Len(csv_text.rows) :
       ~SameUrl(csv_text.rows[i].DocumentIdentifier, EmptyUrl)}

\* URL u is in some DateGroup of the result.
InOutput(u) ==
    \E p \in Places(entries) : SameUrl(ArticleAt(entries, p).url, u)

\* C35: a URL of the payload is in the result exactly when the date of the
\* first row that carries it normalizes; when it does not, no later row
\* brings the URL into the result, whatever its date.
C35_UrlInOutputIffFirstRowDated ==
    Normalized =>
      \A i \in UrlRows :
        LET u == csv_text.rows[i].DocumentIdentifier
            first == csv_text.rows[FirstRowOf(u)]
        IN  InOutput(u) <=> normalize_date(first.Date) # <<>>

\* C35: the first row carries a URL under a date that does not normalize,
\* the second the same URL under 20230101000000, and the result is empty.
C35_Witness ==
    /\ Normalized
    /\ Len(csv_text.rows) = 2
    /\ csv_text.marker
    /\ SameUrl(csv_text.rows[1].DocumentIdentifier,
               csv_text.rows[2].DocumentIdentifier)
    /\ csv_text.rows[1].DocumentIdentifier # EmptyUrl
    /\ normalize_date(csv_text.rows[1].Date) = <<>>
    /\ csv_text.rows[2].Date = Jan01
    /\ entries = <<>>
====
